---- MODULE Spec2Model ----
(***************************************************************************)
(* A model of src/network/server.rs: the wire codec, the message handlers  *)
(* of a node over its shared state (ServerInner), the connection handler,  *)
(* the client leg of the signing RPC, a block-sync session with one peer   *)
(* and two handler threads sharing the lock.                               *)
(*                                                                         *)
(* Rust Strings and byte buffers are sequences of bytes (0..255); the      *)
(* names below spell the ASCII text they stand for.                        *)
(***************************************************************************)
EXTENDS Integers, Sequences, FiniteSets, TLC

VARIABLES
    known_nodes,        \* ServerInner.known_nodes: HashSet<String>
    blocks_in_transit,  \* ServerInner.blocks_in_transit: Vec<String>
    mempool,            \* ServerInner.mempool: the set of its values (keyed by tx.id)
    chain,              \* ServerInner.utxo.blockchain: the ledger's blocks, oldest first
    mining_address,     \* Server.mining_address (never assigned after construction)
    last,               \* what the last handler call did: message, state before, sends, result
    wire,               \* codec: the bytes under decode
    origin,             \* codec: how `wire` was made
    decoded,            \* codec: the result of bytes_to_cmd(wire)
    stream,             \* one TCP connection between a peer/client and the node
    client,             \* the peer's side of the connection (a send_* call or the signing RPC)
    server,             \* the node's handle_connection task for the connection
    threads,            \* the handler threads running side by side: position and locals
    lock,               \* the Mutex around ServerInner: the thread holding it, or Free
    events,             \* what the threads / a sync session did on the network, in order
    peers,              \* a Version exchange: the ServerInner of each of its two nodes
    inflight            \* a Version exchange: the messages sent and not yet handled

vars == <<known_nodes, blocks_in_transit, mempool, chain, mining_address, last,
          wire, origin, decoded, stream, client, server, threads, lock, events,
          peers, inflight>>

nodeVars == <<known_nodes, blocks_in_transit, mempool, chain, mining_address, last>>
codecVars == <<wire, origin, decoded>>
connVars == <<stream, client, server>>
parVars == <<threads, lock, events>>
netVars == <<peers, inflight>>

(***************************************************************************)
(* Bounds of the model.                                                    *)
(***************************************************************************)
MaxTransit == 2     \* longest Block-Sync Tracker / Inv item list the peers offer
MaxChain == 2       \* the ledger holds at most this many blocks
MaxFaulty == 1      \* peers that are unreachable or reset the write, per handler call
MaxSync == 3        \* the longest Inv(block) list of a sync session

(***************************************************************************)
(* Text.                                                                   *)
(***************************************************************************)
Self == <<115>>                 \* "s": Server.node_address
P == <<112>>                    \* "p"
Q == <<113>>                    \* "q"
R == <<114>>                    \* "r"
Miner == <<109>>                \* "m": a mining address
Empty == << >>                  \* ""
KindBlock == <<98, 108, 111, 99, 107>>      \* "block"
KindTx == <<116, 120>>                      \* "tx"
KindOther == <<122>>                        \* "z": neither "block" nor "tx"
CmdAddr == <<97, 100, 100, 114>>                            \* "addr"
CmdBlock == <<98, 108, 111, 99, 107>>                       \* "block"
CmdInv == <<105, 110, 118>>                                 \* "inv"
CmdGetBlocks == <<103, 101, 116, 98, 108, 111, 99, 107, 115>>   \* "getblocks"
CmdGetData == <<103, 101, 116, 100, 97, 116, 97>>           \* "getdata"
CmdTx == <<116, 120>>                                       \* "tx"
CmdVersion == <<118, 101, 114, 115, 105, 111, 110>>         \* "version"
CmdSignReq == <<115, 105, 103, 110, 114, 101, 113>>         \* "signreq"
CmdSignRes == <<115, 105, 103, 110, 114, 101, 115>>         \* "signres"
H1 == <<104, 49>>               \* "h1": a block hash
H2 == <<104, 50>>               \* "h2"
Id1 == <<116, 49>>              \* "t1": a transaction id
Id2 == <<116, 50>>              \* "t2"
Id3 == <<116, 51>>              \* "t3"

Peers == {P, Q, R}
Addrs == {Self} \cup Peers

CMD_LEN == 12
VERSION == 1

(***************************************************************************)
(* The collaborators' data: a Transaction is its id, the id of the         *)
(* transaction whose output it spends ("" for none) and whether it is      *)
(* signed; a Block is its hash and the ids of its transactions.            *)
(***************************************************************************)
Transaction(id, vin, signed) == [id |-> id, vin |-> vin, signed |-> signed]
Block(hash, txs) == [hash |-> hash, txs |-> txs]

T1 == Transaction(Id1, Empty, TRUE)     \* verifies
T2 == Transaction(Id2, Id2, TRUE)       \* never verifies: spends an output that does not exist
T3 == Transaction(Id3, Id1, TRUE)       \* verifies once T1 is in the ledger
B1 == Block(H1, <<>>)
B2 == Block(H2, <<Id1>>)

(***************************************************************************)
(* bincode (fixed-width integers, little endian; u64 length prefixes).     *)
(***************************************************************************)
ser_u64(n) ==
    <<n % 256, (n \div 256) % 256, (n \div 65536) % 256, (n \div 16777216) % 256, 0, 0, 0, 0>>

ser_u32(n) ==
    <<n % 256, (n \div 256) % 256, (n \div 65536) % 256, (n \div 16777216) % 256>>

\* i32 in two's complement
ser_i32(v) ==
    IF v >= 0 THEN ser_u32(v)
    ELSE [i \in 1..4 |-> 255 - ser_u32(-(v + 1))[i]]

ser_bool(b) == IF b THEN <<1>> ELSE <<0>>

ser_String(s) == ser_u64(Len(s)) \o s

RECURSIVE ser_Strings(_)
ser_Strings(v) == IF v = <<>> THEN <<>> ELSE ser_String(Head(v)) \o ser_Strings(Tail(v))

ser_VecString(v) == ser_u64(Len(v)) \o ser_Strings(v)

ser_Transaction(t) == ser_String(t.id) \o ser_String(t.vin) \o ser_bool(t.signed)

ser_Block(b) == ser_String(b.hash) \o ser_VecString(b.txs)

\* A read is [ok, val, pos]: the value and the position after it, or a failure.
Fail == [ok |-> FALSE, val |-> <<>>, pos |-> 0]
Got(v, p) == [ok |-> TRUE, val |-> v, pos |-> p]

de_u64(b, p) ==
    IF p + 7 > Len(b) THEN Fail
    \* a length of 2^31 or more is longer than any input here
    ELSE IF b[p + 3] >= 128 \/ b[p + 4] # 0 \/ b[p + 5] # 0 \/ b[p + 6] # 0 \/ b[p + 7] # 0
         THEN Fail
    ELSE Got(b[p] + 256 * b[p + 1] + 65536 * b[p + 2] + 16777216 * b[p + 3], p + 8)

de_i32(b, p) ==
    IF p + 3 > Len(b) THEN Fail
    ELSE IF b[p + 3] < 128
         THEN Got(b[p] + 256 * b[p + 1] + 65536 * b[p + 2] + 16777216 * b[p + 3], p + 4)
    ELSE Got(-(1 + (255 - b[p]) + 256 * (255 - b[p + 1]) + 65536 * (255 - b[p + 2])
                  + 16777216 * (255 - b[p + 3])), p + 4)

de_bool(b, p) ==
    IF p > Len(b) THEN Fail
    ELSE IF b[p] = 0 THEN Got(FALSE, p + 1)
    ELSE IF b[p] = 1 THEN Got(TRUE, p + 1)
    ELSE Fail

\* a String must be UTF-8: the model's text is ASCII, any byte above 127 is refused
de_String(b, p) ==
    LET n == de_u64(b, p) IN
    IF ~n.ok THEN Fail
    ELSE IF n.pos + n.val - 1 > Len(b) THEN Fail
    ELSE LET s == SubSeq(b, n.pos, n.pos + n.val - 1) IN
         IF \E i \in 1..Len(s) : s[i] > 127 THEN Fail ELSE Got(s, n.pos + n.val)

RECURSIVE de_Strings(_, _, _, _)
de_Strings(b, p, k, acc) ==
    IF k = 0 THEN Got(acc, p)
    ELSE LET s == de_String(b, p) IN
         IF ~s.ok THEN Fail ELSE de_Strings(b, s.pos, k - 1, Append(acc, s.val))

de_VecString(b, p) ==
    LET n == de_u64(b, p) IN
    IF ~n.ok THEN Fail
    ELSE IF n.val > Len(b) THEN Fail
    ELSE de_Strings(b, n.pos, n.val, <<>>)

de_Transaction(b, p) ==
    LET id == de_String(b, p) IN
    IF ~id.ok THEN Fail ELSE
    LET vin == de_String(b, id.pos) IN
    IF ~vin.ok THEN Fail ELSE
    LET sg == de_bool(b, vin.pos) IN
    IF ~sg.ok THEN Fail ELSE Got(Transaction(id.val, vin.val, sg.val), sg.pos)

de_Block(b, p) ==
    LET h == de_String(b, p) IN
    IF ~h.ok THEN Fail ELSE
    LET t == de_VecString(b, h.pos) IN
    IF ~t.ok THEN Fail ELSE Got(Block(h.val, t.val), t.pos)

(***************************************************************************)
(* The payload structs (lines 32-83) and their bincode layout: the fields  *)
(* in declaration order.                                                   *)
(***************************************************************************)
\* Message::Addr carries a bare Vec<String>; the model wraps it so every payload is a record
Addrmsg(nodes) == [nodes |-> nodes]
Blockmsg(from, block) == [addr_from |-> from, block |-> block]
GetBlocksmsg(from) == [addr_from |-> from]
GetDatamsg(from, kind, id) == [addr_from |-> from, kind |-> kind, id |-> id]
Invmsg(from, kind, items) == [addr_from |-> from, kind |-> kind, items |-> items]
Txmsg(from, tx) == [addr_from |-> from, transaction |-> tx]
Versionmsg(from, version, height) ==
    [addr_from |-> from, version |-> version, best_height |-> height]
SignRequestMsg(from, address, tx) ==
    [addr_from |-> from, address |-> address, transaction |-> tx]
SignResponseMsg(from, tx, success, error_message) ==
    [addr_from |-> from, transaction |-> tx, success |-> success,
     error_message |-> error_message]

ser_Addrmsg(m) == ser_VecString(m.nodes)
ser_Blockmsg(m) == ser_String(m.addr_from) \o ser_Block(m.block)
ser_GetBlocksmsg(m) == ser_String(m.addr_from)
ser_GetDatamsg(m) == ser_String(m.addr_from) \o ser_String(m.kind) \o ser_String(m.id)
ser_Invmsg(m) == ser_String(m.addr_from) \o ser_String(m.kind) \o ser_VecString(m.items)
ser_Txmsg(m) == ser_String(m.addr_from) \o ser_Transaction(m.transaction)
ser_Versionmsg(m) == ser_String(m.addr_from) \o ser_i32(m.version) \o ser_i32(m.best_height)
ser_SignRequestMsg(m) ==
    ser_String(m.addr_from) \o ser_String(m.address) \o ser_Transaction(m.transaction)
ser_SignResponseMsg(m) ==
    ser_String(m.addr_from) \o ser_Transaction(m.transaction) \o ser_bool(m.success)
        \o ser_String(m.error_message)

de_Addrmsg(b, p) ==
    LET v == de_VecString(b, p) IN
    IF ~v.ok THEN Fail ELSE Got(Addrmsg(v.val), v.pos)

de_Blockmsg(b, p) ==
    LET f == de_String(b, p) IN
    IF ~f.ok THEN Fail ELSE
    LET k == de_Block(b, f.pos) IN
    IF ~k.ok THEN Fail ELSE Got(Blockmsg(f.val, k.val), k.pos)

de_GetBlocksmsg(b, p) ==
    LET f == de_String(b, p) IN
    IF ~f.ok THEN Fail ELSE Got(GetBlocksmsg(f.val), f.pos)

de_GetDatamsg(b, p) ==
    LET f == de_String(b, p) IN
    IF ~f.ok THEN Fail ELSE
    LET k == de_String(b, f.pos) IN
    IF ~k.ok THEN Fail ELSE
    LET i == de_String(b, k.pos) IN
    IF ~i.ok THEN Fail ELSE Got(GetDatamsg(f.val, k.val, i.val), i.pos)

de_Invmsg(b, p) ==
    LET f == de_String(b, p) IN
    IF ~f.ok THEN Fail ELSE
    LET k == de_String(b, f.pos) IN
    IF ~k.ok THEN Fail ELSE
    LET i == de_VecString(b, k.pos) IN
    IF ~i.ok THEN Fail ELSE Got(Invmsg(f.val, k.val, i.val), i.pos)

de_Txmsg(b, p) ==
    LET f == de_String(b, p) IN
    IF ~f.ok THEN Fail ELSE
    LET t == de_Transaction(b, f.pos) IN
    IF ~t.ok THEN Fail ELSE Got(Txmsg(f.val, t.val), t.pos)

de_Versionmsg(b, p) ==
    LET f == de_String(b, p) IN
    IF ~f.ok THEN Fail ELSE
    LET v == de_i32(b, f.pos) IN
    IF ~v.ok THEN Fail ELSE
    LET h == de_i32(b, v.pos) IN
    IF ~h.ok THEN Fail ELSE Got(Versionmsg(f.val, v.val, h.val), h.pos)

de_SignRequestMsg(b, p) ==
    LET f == de_String(b, p) IN
    IF ~f.ok THEN Fail ELSE
    LET a == de_String(b, f.pos) IN
    IF ~a.ok THEN Fail ELSE
    LET t == de_Transaction(b, a.pos) IN
    IF ~t.ok THEN Fail ELSE Got(SignRequestMsg(f.val, a.val, t.val), t.pos)

de_SignResponseMsg(b, p) ==
    LET f == de_String(b, p) IN
    IF ~f.ok THEN Fail ELSE
    LET t == de_Transaction(b, f.pos) IN
    IF ~t.ok THEN Fail ELSE
    LET s == de_bool(b, t.pos) IN
    IF ~s.ok THEN Fail ELSE
    LET e == de_String(b, s.pos) IN
    IF ~e.ok THEN Fail ELSE Got(SignResponseMsg(f.val, t.val, s.val, e.val), e.pos)

(***************************************************************************)
(* The wire codec.                                                         *)
(***************************************************************************)
\* enum Message: a variant and its payload
Message(variant, data) == [variant |-> variant, data |-> data]

\* the outcome of a fallible call: Ok(value), Err, or a panic of the thread
Ok(v) == [res |-> "Ok", val |-> v]
Err(why) == [res |-> "Err", val |-> why]
Panic(why) == [res |-> "Panic", val |-> why]

\* data[i] = *d for every byte of cmd: a cmd longer than the array indexes out of it
cmd_to_bytes(cmd) ==
    IF Len(cmd) > CMD_LEN THEN Panic("index out of bounds")
    ELSE [i \in 1..CMD_LEN |-> IF i <= Len(cmd) THEN cmd[i] ELSE 0]

\* serialize(&(cmd_to_bytes(cmd), payload)): the array's 12 bytes, then the payload
serialize(cmd, payload) == cmd_to_bytes(cmd) \o payload

\* deserialize(data) as the payload type of a variant; bytes after the value are ignored
deserialize(variant, r) == IF r.ok THEN Ok(Message(variant, r.val)) ELSE Err("deserialize")

bytes_to_cmd(bytes) ==
    IF Len(bytes) < CMD_LEN THEN Panic("range end index 12 out of range")
    ELSE
    LET cmd_bytes == SubSeq(bytes, 1, CMD_LEN)
        data == SubSeq(bytes, CMD_LEN + 1, Len(bytes))
        cmd == SelectSeq(cmd_bytes, LAMBDA b : b # 0)
    IN  IF \E i \in 1..Len(cmd) : cmd[i] > 127 THEN Err("from_utf8")
        ELSE IF cmd = CmdAddr THEN deserialize("Addr", de_Addrmsg(data, 1))
        ELSE IF cmd = CmdBlock THEN deserialize("Block", de_Blockmsg(data, 1))
        ELSE IF cmd = CmdInv THEN deserialize("Inv", de_Invmsg(data, 1))
        ELSE IF cmd = CmdGetBlocks THEN deserialize("GetBlock", de_GetBlocksmsg(data, 1))
        ELSE IF cmd = CmdGetData THEN deserialize("GetData", de_GetDatamsg(data, 1))
        ELSE IF cmd = CmdTx THEN deserialize("Tx", de_Txmsg(data, 1))
        ELSE IF cmd = CmdVersion THEN deserialize("Version", de_Versionmsg(data, 1))
        ELSE IF cmd = CmdSignReq THEN deserialize("SignRequest", de_SignRequestMsg(data, 1))
        ELSE IF cmd = CmdSignRes THEN deserialize("SignResponse", de_SignResponseMsg(data, 1))
        ELSE Err("Unknown command in the server")

\* what a send_* operation or a reply hands to the socket: the command and the payload
Out(cmd, data) == [cmd |-> cmd, data |-> data]

\* the variant each command decodes to
VariantOf(cmd) ==
    CASE cmd = CmdAddr -> "Addr"
      [] cmd = CmdBlock -> "Block"
      [] cmd = CmdInv -> "Inv"
      [] cmd = CmdGetBlocks -> "GetBlock"
      [] cmd = CmdGetData -> "GetData"
      [] cmd = CmdTx -> "Tx"
      [] cmd = CmdVersion -> "Version"
      [] cmd = CmdSignReq -> "SignRequest"
      [] cmd = CmdSignRes -> "SignResponse"
      [] OTHER -> "none"

\* the bytes of an outbound message: each send_* serializes its own payload type
ser_payload(m) ==
    CASE m.cmd = CmdAddr -> ser_Addrmsg(m.data)
      [] m.cmd = CmdBlock -> ser_Blockmsg(m.data)
      [] m.cmd = CmdInv -> ser_Invmsg(m.data)
      [] m.cmd = CmdGetBlocks -> ser_GetBlocksmsg(m.data)
      [] m.cmd = CmdGetData -> ser_GetDatamsg(m.data)
      [] m.cmd = CmdTx -> ser_Txmsg(m.data)
      [] m.cmd = CmdVersion -> ser_Versionmsg(m.data)
      [] m.cmd = CmdSignReq -> ser_SignRequestMsg(m.data)
      [] m.cmd = CmdSignRes -> ser_SignResponseMsg(m.data)

encode(m) == serialize(m.cmd, ser_payload(m))

(***************************************************************************)
(* The state after Server::new; the parts a specification does not use     *)
(* stay as they are here.                                                  *)
(***************************************************************************)
NoCall == [op |-> "none"]
NoBytes == [how |-> "none"]
NotDecoded == [res |-> "none", val |-> <<>>]
NoStream == [open |-> FALSE]
NoClient == [pc |-> "idle"]
NoServer == [pc |-> "idle"]

CodecIdle == wire = <<>> /\ origin = NoBytes /\ decoded = NotDecoded
ConnIdle == stream = NoStream /\ client = NoClient /\ server = NoServer
Free == 0
NoThreads == <<>>
ParIdle == threads = NoThreads /\ lock = Free /\ events = <<>>
NetIdle == peers = <<>> /\ inflight = <<>>
MapDrop(m, ks) == [x \in DOMAIN m \ ks |-> m[x]]
EmptyMap == MapDrop(<<>>, {})
NodeNew ==
    /\ known_nodes = {}
    /\ blocks_in_transit = <<>>
    /\ mempool = EmptyMap
    /\ chain = <<>>
    /\ mining_address = Empty
    /\ last = NoCall

(***************************************************************************)
(* SpecCodec: messages are encoded as the send operations encode them,     *)
(* bytes are forged under other tags or cut short, and bytes_to_cmd        *)
(* decodes what results.                                                   *)
(***************************************************************************)
Cmds == {CmdAddr, CmdBlock, CmdInv, CmdGetBlocks, CmdGetData, CmdTx, CmdVersion,
         CmdSignReq, CmdSignRes}

KnownTags == {cmd_to_bytes(c) : c \in Cmds}

SampleFrom == {Self, P}
SampleTx == {T1, T3, Transaction(Id2, Id2, FALSE)}
SampleItems == {<<>>, <<H1>>, <<H1, H2>>, <<H1, H2, H1>>}
SampleHeights == {-1, 0, 5, 10, 300, 70000, -2}

SampleOut ==
    {Out(CmdAddr, Addrmsg(v)) : v \in {<<>>, <<P>>, <<P, Q>>, <<Self, P, Self>>}}
    \cup {Out(CmdBlock, Blockmsg(f, b)) : f \in SampleFrom, b \in {B1, B2}}
    \cup {Out(CmdInv, Invmsg(f, k, i)) :
            f \in SampleFrom, k \in {KindBlock, KindTx}, i \in SampleItems}
    \cup {Out(CmdGetBlocks, GetBlocksmsg(f)) : f \in SampleFrom \cup {Empty}}
    \cup {Out(CmdGetData, GetDatamsg(f, k, i)) :
            f \in SampleFrom, k \in {KindBlock, KindTx}, i \in {H1, Id1}}
    \cup {Out(CmdTx, Txmsg(f, t)) : f \in SampleFrom, t \in SampleTx}
    \cup {Out(CmdVersion, Versionmsg(f, VERSION, h)) : f \in SampleFrom, h \in SampleHeights}
    \cup {Out(CmdSignReq, SignRequestMsg(f, a, t)) :
            f \in SampleFrom, a \in {Miner, Empty}, t \in SampleTx}
    \cup {Out(CmdSignRes, SignResponseMsg(f, t, ok, e)) :
            f \in SampleFrom, t \in SampleTx, ok \in BOOLEAN, e \in {Empty, <<87, 110, 102>>}}

\* 12-byte tags that are none of the nine the node writes
TagZero == [i \in 1..CMD_LEN |-> 0]
TagFoo == [i \in 1..CMD_LEN |-> IF i <= 3 THEN <<102, 111, 111>>[i] ELSE 0]
TagTxx == [i \in 1..CMD_LEN |-> IF i <= 3 THEN <<116, 120, 120>>[i] ELSE 0]
TagUpper == [i \in 1..CMD_LEN |-> IF i <= 2 THEN <<84, 88>>[i] ELSE 0]
TagHigh == [i \in 1..CMD_LEN |-> IF i <= 2 THEN <<116, 200>>[i] ELSE 0]
TagFull == [i \in 1..CMD_LEN |-> 120]
\* "tx" and "inv" with NUL bytes before or between the letters
TagGapTx == [i \in 1..CMD_LEN |-> IF i = 1 THEN 116 ELSE IF i = 3 THEN 120 ELSE 0]
TagLateTx == [i \in 1..CMD_LEN |-> IF i = 11 THEN 116 ELSE IF i = 12 THEN 120 ELSE 0]
TagGapInv ==
    [i \in 1..CMD_LEN |-> IF i = 2 THEN 105 ELSE IF i = 3 THEN 110 ELSE IF i = 5 THEN 118 ELSE 0]

ForgedTags ==
    {TagZero, TagFoo, TagTxx, TagUpper, TagHigh, TagFull, TagGapTx, TagLateTx, TagGapInv}

Encode ==
    /\ origin.how = "none"
    /\ \E m \in SampleOut :
        /\ wire' = encode(m)
        /\ origin' = [how |-> "encoded", m |-> m]
    /\ decoded' = NotDecoded
    /\ UNCHANGED <<nodeVars, connVars, parVars, netVars>>

Forge ==
    /\ origin.how = "none"
    /\ \E t \in ForgedTags \cup KnownTags, m \in SampleOut :
        /\ wire' = t \o ser_payload(m)
        /\ origin' = [how |-> "forged", tag |-> t, m |-> m]
    /\ decoded' = NotDecoded
    /\ UNCHANGED <<nodeVars, connVars, parVars, netVars>>

\* the first n bytes of an encoded message
Cut ==
    /\ origin.how = "none"
    /\ \E m \in SampleOut, n \in {0, 5, 11, 12, 13, 20, 24} :
        /\ n < Len(encode(m))
        /\ wire' = SubSeq(encode(m), 1, n)
        /\ origin' = [how |-> "cut", m |-> m, n |-> n]
    /\ decoded' = NotDecoded
    /\ UNCHANGED <<nodeVars, connVars, parVars, netVars>>

Decode ==
    /\ origin.how # "none"
    /\ decoded.res = "none"
    /\ decoded' = bytes_to_cmd(wire)
    /\ UNCHANGED <<wire, origin, nodeVars, connVars, parVars, netVars>>

CodecInit == NodeNew /\ CodecIdle /\ ConnIdle /\ ParIdle /\ NetIdle
CodecNext == Encode \/ Forge \/ Cut \/ Decode
SpecCodec == CodecInit /\ [][CodecNext]_vars

\* C4: a message of any of the nine kinds decodes to the variant of its kind with
\* the payload that was encoded, and bytes under a 12-byte tag that is none of the
\* nine known tags never decode.
C4_RoundTrip ==
    (origin.how = "encoded" /\ decoded.res # "none")
        => /\ decoded.res = "Ok"
           /\ decoded.val = Message(VariantOf(origin.m.cmd), origin.m.data)

C4_UnknownTagFails ==
    (origin.how = "forged" /\ origin.tag \notin KnownTags /\ decoded.res # "none")
        => decoded.res # "Ok"

C4_CodecRoundTripAndUnknownTag == C4_RoundTrip /\ C4_UnknownTagFails

(***************************************************************************)
(* A handler call.  A call runs on a record of the shared state together   *)
(* with what the call has done so far: the sends it attempted, the UTXO    *)
(* reindexes it triggered, the blocks it mined, and whether it still runs  *)
(* ("run") or has returned ("Ok", "Err" through a `?`, or "Panic").  Every *)
(* step of a call that has returned leaves the record as it is.            *)
(***************************************************************************)
Begin ==
    [known_nodes |-> known_nodes, blocks_in_transit |-> blocks_in_transit,
     mempool |-> mempool, chain |-> chain,
     sent |-> <<>>, reindex |-> 0, mined |-> <<>>, result |-> "run"]

Running(st) == st.result = "run"
Return(st, r) == IF Running(st) THEN [st EXCEPT !.result = r] ELSE st

\* the network as one call finds it: each peer accepts the connection and the
\* write ("ok"), refuses the connection ("refused"), or accepts the connection
\* and fails the write ("reset")
Outcomes == {"ok", "refused", "reset"}
Nets ==
    {n \in [Peers -> Outcomes] : Cardinality({p \in Peers : n[p] # "ok"}) <= MaxFaulty}
OnlyPeer(p, out) == [q \in Peers |-> IF q = p THEN out ELSE "ok"]

\* the orders a HashSet<String> may be iterated in
RECURSIVE Perms(_)
Perms(S) ==
    IF S = {} THEN {<<>>}
    ELSE UNION {{<<x>> \o t : t \in Perms(S \ {x})} : x \in S}
Orders(S) == Perms(S)
Iter(S, order) == SelectSeq(order, LAMBDA a : a \in S)

(*************************** the accessors, lines 175-256 ******************)
remove_node(st, addr) ==
    IF Running(st) THEN [st EXCEPT !.known_nodes = @ \ {addr}] ELSE st

add_nodes(st, addr) ==
    IF Running(st) THEN [st EXCEPT !.known_nodes = @ \cup {addr}] ELSE st

get_known_nodes(st) == st.known_nodes

node_is_known(st, addr) == addr \in st.known_nodes

replace_in_transit(st, hashs) ==
    IF Running(st) THEN [st EXCEPT !.blocks_in_transit = hashs] ELSE st

get_in_transit(st) == st.blocks_in_transit

\* Option<Transaction>: the set of at most one transaction
get_mempool_tx(st, id) == IF id \in DOMAIN st.mempool THEN {st.mempool[id]} ELSE {}

get_mempool(st) == st.mempool

MapPut(m, k, v) == [x \in DOMAIN m \cup {k} |-> IF x = k THEN v ELSE m[x]]

insert_mempool(st, tx) ==
    IF Running(st) THEN [st EXCEPT !.mempool = MapPut(@, tx.id, tx)] ELSE st

clear_mempool(st) ==
    IF Running(st) THEN [st EXCEPT !.mempool = EmptyMap] ELSE st

(*************************** the ledger and the UTXO index *****************)
\* -1 for a ledger without blocks
get_best_height(st) == Len(st.chain) - 1

\* newest first
get_block_hashs(st) == [i \in 1..Len(st.chain) |-> st.chain[Len(st.chain) + 1 - i].hash]

\* Result<Block>: the set of at most one block
get_block(st, hash) == {st.chain[i] : i \in {j \in 1..Len(st.chain) : st.chain[j].hash = hash}}

InLedger(st, id) == \E i \in 1..Len(st.chain) : \E j \in 1..Len(st.chain[i].txs) :
                        st.chain[i].txs[j] = id

verify_tx(st, tx) == tx.vin = Empty \/ InLedger(st, tx.vin)

add_block(st, block) ==
    IF Running(st) THEN [st EXCEPT !.chain = Append(@, block)] ELSE st

utxo_reindex(st) ==
    IF Running(st) THEN [st EXCEPT !.reindex = @ + 1] ELSE st

\* the hash of the block mined on a ledger of n blocks, and the id of its coinbase
MinedHash(n) == <<109, 48 + n>>
CoinbaseId(n) == <<99, 48 + n>>
new_coinbase(st) == Transaction(CoinbaseId(Len(st.chain)), Empty, TRUE)

RECURSIVE SeqOf(_)
SeqOf(S) ==
    IF S = {} THEN <<>>
    ELSE LET x == CHOOSE y \in S : TRUE IN <<x>> \o SeqOf(S \ {x})

NewBlock(st, ids) == Block(MinedHash(Len(st.chain)), ids)

mine_block(st, ids) ==
    IF Running(st)
    THEN [st EXCEPT !.chain = Append(@, NewBlock(st, ids)),
                    !.mined = Append(@, NewBlock(st, ids))]
    ELSE st

(*************************** the sends, lines 260-358 **********************)
Attempt(addr, m, out) == [to |-> addr, m |-> m, out |-> out]

send_data(st, net, addr, m) ==
    IF ~Running(st) THEN st
    ELSE IF addr = Self THEN st
    ELSE IF net[addr] = "refused"
         THEN remove_node([st EXCEPT !.sent = Append(@, Attempt(addr, m, "refused"))], addr)
    ELSE IF net[addr] = "reset"
         THEN Return([st EXCEPT !.sent = Append(@, Attempt(addr, m, "reset"))], "Err")
    ELSE [st EXCEPT !.sent = Append(@, Attempt(addr, m, "ok"))]

send_block(st, net, addr, b) == send_data(st, net, addr, Out(CmdBlock, Blockmsg(Self, b)))

send_addr(st, net, addr) ==
    send_data(st, net, addr, Out(CmdAddr, Addrmsg(SeqOf(get_known_nodes(st)))))

send_inv(st, net, addr, kind, items) ==
    send_data(st, net, addr, Out(CmdInv, Invmsg(Self, kind, items)))

send_get_blocks(st, net, addr) ==
    send_data(st, net, addr, Out(CmdGetBlocks, GetBlocksmsg(Self)))

send_get_data(st, net, addr, kind, id) ==
    send_data(st, net, addr, Out(CmdGetData, GetDatamsg(Self, kind, id)))

send_tx(st, net, addr, tx) == send_data(st, net, addr, Out(CmdTx, Txmsg(Self, tx)))

send_version(st, net, addr) ==
    send_data(st, net, addr, Out(CmdVersion, Versionmsg(Self, VERSION, get_best_height(st))))

(*************************** the handlers, lines 360-509 *******************)
\* faulty variants of handle_version, against which C5 and C6 are tested:
\* one never replies with Addr, one treats an equal height as a lower one
handle_version_no_addr(st, net, msg) ==
    LET my_best_height == get_best_height(st)
        s1 == IF my_best_height < msg.best_height
                 THEN send_get_blocks(st, net, msg.addr_from)
              ELSE IF my_best_height > msg.best_height
                 THEN send_version(st, net, msg.addr_from)
              ELSE st
    IN  IF ~node_is_known(s1, msg.addr_from) THEN add_nodes(s1, msg.addr_from) ELSE s1

handle_version_ge(st, net, msg) ==
    LET my_best_height == get_best_height(st)
        s1 == IF my_best_height < msg.best_height
                 THEN send_get_blocks(st, net, msg.addr_from)
              ELSE send_version(st, net, msg.addr_from)
        s2 == send_addr(s1, net, msg.addr_from)
    IN  IF ~node_is_known(s2, msg.addr_from) THEN add_nodes(s2, msg.addr_from) ELSE s2

\* a faulty variant of handle_version, against which C22 is tested: a Version is
\* answered with a Version whatever the heights
handle_version_echo(st, net, msg) ==
    LET s1 == IF get_best_height(st) < msg.best_height
                 THEN send_get_blocks(st, net, msg.addr_from)
              ELSE st
        s2 == send_version(s1, net, msg.addr_from)
        s3 == send_addr(s2, net, msg.addr_from)
    IN  IF ~node_is_known(s3, msg.addr_from) THEN add_nodes(s3, msg.addr_from) ELSE s3

handle_version(st, net, msg) ==
    LET my_best_height == get_best_height(st)
        s1 == IF my_best_height < msg.best_height
                 THEN send_get_blocks(st, net, msg.addr_from)
              ELSE IF my_best_height > msg.best_height
                 THEN send_version(st, net, msg.addr_from)
              ELSE st
        s2 == send_addr(s1, net, msg.addr_from)
    IN  IF ~node_is_known(s2, msg.addr_from) THEN add_nodes(s2, msg.addr_from) ELSE s2

\* a faulty variant of handle_addr, against which C15 is tested: the Registry is
\* replaced by the received list instead of extended by it
handle_addr_replaces(st, nodes) ==
    IF Running(st) THEN [st EXCEPT !.known_nodes = {nodes[i] : i \in DOMAIN nodes}] ELSE st

RECURSIVE handle_addr(_, _)
handle_addr(st, nodes) ==
    IF nodes = <<>> THEN st ELSE handle_addr(add_nodes(st, Head(nodes)), Tail(nodes))

\* a faulty variant of handle_block, against which C7 is tested: the Tracker keeps
\* the hash it has just requested
handle_block_no_pop(st, net, msg) ==
    LET s1 == add_block(st, msg.block)
        in_transit == get_in_transit(s1)
    IN  IF in_transit # <<>>
        THEN send_get_data(s1, net, msg.addr_from, KindBlock, in_transit[1])
        ELSE utxo_reindex(s1)

handle_block(st, net, msg) ==
    LET s1 == add_block(st, msg.block)
        in_transit == get_in_transit(s1)
    IN  IF in_transit # <<>>
        THEN replace_in_transit(
                send_get_data(s1, net, msg.addr_from, KindBlock, in_transit[1]),
                Tail(in_transit))
        ELSE utxo_reindex(s1)

\* a faulty variant of handle_inv, against which C19 is tested: the Tracker keeps the
\* hash that has just been requested
handle_inv_keeps_first(st, net, msg) ==
    IF msg.kind = KindBlock /\ msg.items # <<>>
    THEN replace_in_transit(
            send_get_data(st, net, msg.addr_from, KindBlock, msg.items[1]), msg.items)
    ELSE st

handle_inv(st, net, msg) ==
    IF msg.kind = KindBlock
    THEN IF msg.items = <<>> THEN Return(st, "Panic")
         ELSE LET block_hash == msg.items[1]
                  s1 == send_get_data(st, net, msg.addr_from, KindBlock, block_hash)
              IN  replace_in_transit(s1, SelectSeq(msg.items, LAMBDA b : b # block_hash))
    ELSE IF msg.kind = KindTx
    THEN IF msg.items = <<>> THEN Return(st, "Panic")
         ELSE LET txid == msg.items[1]
                  found == get_mempool_tx(st, txid)
              IN  IF found = {} \/ (\E tx \in found : tx.id = Empty)
                  THEN send_get_data(st, net, msg.addr_from, KindTx, txid)
                  ELSE st
    ELSE st

handle_get_blocks(st, net, msg) ==
    send_inv(st, net, msg.addr_from, KindBlock, get_block_hashs(st))

handle_get_data(st, net, msg) ==
    IF msg.kind = KindBlock
    THEN IF get_block(st, msg.id) = {} THEN Return(st, "Err")
         ELSE send_block(st, net, msg.addr_from, CHOOSE b \in get_block(st, msg.id) : TRUE)
    ELSE IF msg.kind = KindTx
    THEN IF get_mempool_tx(st, msg.id) = {} THEN Return(st, "Panic")
         ELSE send_tx(st, net, msg.addr_from, CHOOSE t \in get_mempool_tx(st, msg.id) : TRUE)
    ELSE st

\* a faulty variant of the broadcast loop, against which C8 is tested: the sender of
\* the transaction is not skipped
RECURSIVE Broadcast_to_sender(_, _, _, _, _, _)
Broadcast_to_sender(st, net, nodes, skip, kind, items) ==
    IF nodes = <<>> THEN st
    ELSE LET s1 == IF Head(nodes) # Self
                   THEN send_inv(st, net, Head(nodes), kind, items) ELSE st
         IN  Broadcast_to_sender(s1, net, Tail(nodes), skip, kind, items)

\* for node in nodes { if node != node_address && node != skip { send_inv(node, ..)? } }
RECURSIVE Broadcast(_, _, _, _, _, _)
Broadcast(st, net, nodes, skip, kind, items) ==
    IF nodes = <<>> THEN st
    ELSE LET node == Head(nodes)
             s1 == IF node # Self /\ node \notin skip
                   THEN send_inv(st, net, node, kind, items) ELSE st
         IN  Broadcast(s1, net, Tail(nodes), skip, kind, items)

\* the loop of lines 470-503 on the working copy `pool`
RECURSIVE MiningLoop(_, _, _, _)

\* a faulty variant of the mining loop, against which C23 is tested: a pass that
\* finds no verifying transaction mines a block of the coinbase alone before it
\* returns
MiningLoop_mines_empty(st, net, order, pool) ==
    IF ~Running(st) THEN st ELSE
    LET txs == {pool[k] : k \in {x \in DOMAIN pool : verify_tx(st, pool[x])}}
        cbtx == new_coinbase(st)
    IN
    IF txs = {} THEN Return(utxo_reindex(mine_block(st, <<cbtx.id>>)), "Ok") ELSE
    LET ids == SeqOf({t.id : t \in txs}) \o <<cbtx.id>>
        left == MapDrop(pool, {t.id : t \in txs} \cup {cbtx.id})
        s1 == mine_block(st, ids)
        s2 == utxo_reindex(s1)
        s3 == Broadcast(s2, net, Iter(get_known_nodes(s2), order), {}, KindBlock,
                        <<NewBlock(st, ids).hash>>)
    IN  IF DOMAIN left = {} THEN s3 ELSE MiningLoop(s3, net, order, left)

\* the loop of handle_tx, lines 470-503, over the working copy `pool`
MiningLoop(st, net, order, pool) ==
    IF ~Running(st) THEN st ELSE
    LET txs == {pool[k] : k \in {x \in DOMAIN pool : verify_tx(st, pool[x])}} IN
    IF txs = {} THEN Return(st, "Ok") ELSE
    LET cbtx == new_coinbase(st)
        ids == SeqOf({t.id : t \in txs}) \o <<cbtx.id>>
        left == MapDrop(pool, {t.id : t \in txs} \cup {cbtx.id})
        s1 == mine_block(st, ids)
        s2 == utxo_reindex(s1)
        s3 == Broadcast(s2, net, Iter(get_known_nodes(s2), order), {}, KindBlock,
                        <<NewBlock(st, ids).hash>>)
    IN  IF DOMAIN left = {} THEN s3 ELSE MiningLoop(s3, net, order, left)

handle_tx(st, net, order, miner, msg) ==
    LET s1 == insert_mempool(st, msg.transaction)
        known == get_known_nodes(s1)
        s2 == Broadcast(s1, net, Iter(known, order), {msg.addr_from}, KindTx,
                        <<msg.transaction.id>>)
    IN  IF miner # Empty /\ DOMAIN get_mempool(s2) # {}
        THEN clear_mempool(MiningLoop(s2, net, order, get_mempool(s2)))
        ELSE s2

(*************************** the signing service, lines 643-712 ************)
\* the wallet store and the signer of the serving instance
WalletAddrs == {Miner}
get_wallet(address) == address \in WalletAddrs
Signed(tx) == [tx EXCEPT !.signed = TRUE]
WalletNotFound ==
    <<87, 97, 108, 108, 101, 116, 32, 110, 111, 116, 32, 102, 111, 117, 110, 100, 58, 32>>
SigningError == <<83, 105, 103, 110, 105, 110, 103, 32, 101, 114, 114, 111, 114, 58, 32>>
SignerFault == <<101>>

\* a faulty variant of prepare_sign_response, against which C12 is tested: a signer
\* failure answers with the transaction as if it had been signed
prepare_sign_response_signs(msg, signer_ok) ==
    IF ~get_wallet(msg.address)
    THEN SignResponseMsg(Self, msg.transaction, FALSE, WalletNotFound \o msg.address)
    ELSE IF signer_ok
    THEN SignResponseMsg(Self, Signed(msg.transaction), TRUE, Empty)
    ELSE SignResponseMsg(Self, Signed(msg.transaction), FALSE, SigningError \o SignerFault)

\* lines 660-712; signer_ok: whether sign_transacton succeeds
prepare_sign_response(msg, signer_ok) ==
    IF ~get_wallet(msg.address)
    THEN SignResponseMsg(Self, msg.transaction, FALSE, WalletNotFound \o msg.address)
    ELSE IF signer_ok
    THEN SignResponseMsg(Self, Signed(msg.transaction), TRUE, Empty)
    ELSE SignResponseMsg(Self, msg.transaction, FALSE, SigningError \o SignerFault)

\* the SignRequest arm of handle_connection, lines 643-653: the frames written on
\* the connection and how the arm ends; `wr` is the outcome of write_all
sign_arm(response, wr) ==
    IF wr = "ok"
    THEN [reply |-> <<encode(Out(CmdSignRes, response))>>, result |-> "Ok"]
    ELSE [reply |-> <<>>, result |-> "Err"]

(***************************************************************************)
(* A handler call as one action: the shared state becomes what the call    *)
(* leaves, and `last` records the call.                                    *)
(***************************************************************************)
Pre ==
    [known_nodes |-> known_nodes, blocks_in_transit |-> blocks_in_transit,
     mempool |-> mempool, chain |-> chain]

Effects(op, msg, st) ==
    /\ last.op = "none"
    /\ Len(st.chain) <= MaxChain
    /\ known_nodes' = st.known_nodes
    /\ blocks_in_transit' = st.blocks_in_transit
    /\ mempool' = st.mempool
    /\ chain' = st.chain
    /\ last' = [op |-> op, msg |-> msg, pre |-> Pre, sent |-> st.sent,
                reindex |-> st.reindex, mined |-> st.mined,
                result |-> Return(st, "Ok").result]
    /\ UNCHANGED mining_address

\* a handler called with a decoded message, outside any connection
Call(op, msg, st) == Effects(op, msg, st) /\ UNCHANGED <<codecVars, netVars, connVars, parVars>>

\* the call has returned and its thread is gone: nothing remembers it
Forget ==
    /\ last.op # "none"
    /\ last' = NoCall
    /\ UNCHANGED <<known_nodes, blocks_in_transit, mempool, chain, mining_address,
                   codecVars, netVars, connVars, parVars>>

\* the messages the peers send
Senders == {Self, P, Q}
Heights == -1..MaxChain
RECURSIVE SeqsUpTo(_, _)
SeqsUpTo(S, n) ==
    IF n = 0 THEN {<<>>}
    ELSE SeqsUpTo(S, n - 1) \cup {Append(q, x) : q \in SeqsUpTo(S, n - 1), x \in S}
Hashes == {H1, H2}
NodeLists == {<<>>, <<P>>, <<Q, R>>, <<Self>>, <<R, R>>}

VersionMsgs == {Versionmsg(f, VERSION, h) : f \in Senders, h \in Heights}
AddrMsgs == {Addrmsg(v) : v \in NodeLists}
BlockMsgs == {Blockmsg(f, b) : f \in Senders, b \in {B1, B2}}
InvMsgs ==
    {Invmsg(f, KindBlock, i) : f \in Senders, i \in SeqsUpTo(Hashes, MaxTransit + 1)}
    \cup {Invmsg(f, KindTx, i) : f \in Senders, i \in {<<>>, <<Id1>>, <<Id3>>}}
    \cup {Invmsg(f, KindOther, <<>>) : f \in Senders}
GetBlocksMsgs == {GetBlocksmsg(f) : f \in Senders}
GetDataMsgs ==
    {GetDatamsg(f, KindBlock, h) : f \in Senders, h \in Hashes}
    \cup {GetDatamsg(f, KindTx, i) : f \in Senders, i \in {Id1, Id2}}
    \cup {GetDatamsg(f, KindOther, Empty) : f \in Senders}
TxMsgs == {Txmsg(f, t) : f \in {Self, P}, t \in {T1, T2, T3}}

HandleVersion ==
    \E msg \in VersionMsgs, out \in Outcomes :
        Call("version", msg, handle_version(Begin, OnlyPeer(msg.addr_from, out), msg))

HandleAddr ==
    \E msg \in AddrMsgs : Call("addr", msg, handle_addr(Begin, msg.nodes))

HandleBlock ==
    \E msg \in BlockMsgs, out \in Outcomes :
        Call("block", msg, handle_block(Begin, OnlyPeer(msg.addr_from, out), msg))

HandleInv ==
    \E msg \in InvMsgs, out \in Outcomes :
        Call("inv", msg, handle_inv(Begin, OnlyPeer(msg.addr_from, out), msg))

HandleGetBlocks ==
    \E msg \in GetBlocksMsgs, out \in Outcomes :
        Call("getblocks", msg, handle_get_blocks(Begin, OnlyPeer(msg.addr_from, out), msg))

HandleGetData ==
    \E msg \in GetDataMsgs, out \in Outcomes :
        Call("getdata", msg, handle_get_data(Begin, OnlyPeer(msg.addr_from, out), msg))

HandleTx ==
    \E msg \in TxMsgs, net \in Nets, order \in Orders(known_nodes) :
        Call("tx", msg, handle_tx(Begin, net, order, mining_address, msg))

SignRequestMsgs ==
    {SignRequestMsg(f, a, t) : f \in {P, Q}, a \in {Miner, Empty, P}, t \in SampleTx}

SignCall(msg, signer_ok, wr, arm) ==
    /\ last.op = "none"
    /\ last' = [op |-> "signreq", msg |-> msg, pre |-> Pre, sent |-> <<>>, reindex |-> 0,
                mined |-> <<>>, signer_ok |-> signer_ok, write |-> wr,
                reply |-> arm.reply, result |-> arm.result]
    /\ UNCHANGED <<known_nodes, blocks_in_transit, mempool, chain, mining_address,
                   codecVars, netVars, connVars, parVars>>

HandleSignRequest ==
    \E msg \in SignRequestMsgs, signer_ok \in BOOLEAN, wr \in {"ok", "reset"} :
        SignCall(msg, signer_ok, wr, sign_arm(prepare_sign_response(msg, signer_ok), wr))

(***************************************************************************)
(* Spec: a node without a mining address handles the block-sync and        *)
(* registry messages of its peers.                                         *)
(***************************************************************************)
Init == NodeNew /\ CodecIdle /\ ConnIdle /\ ParIdle /\ NetIdle
Next ==
    \/ HandleVersion
    \/ HandleAddr
    \/ HandleBlock
    \/ HandleInv
    \/ HandleGetBlocks
    \/ HandleGetData
    \/ HandleSignRequest
    \/ Forget
Spec == Init /\ [][Next]_vars

\* what the last call sent, by command; a send is a call of send_data that got as
\* far as the connect
SentOf(cmd) == SelectSeq(last.sent, LAMBDA a : a.m.cmd = cmd)
SentTo(seq) == {seq[i].to : i \in 1..Len(seq)}
Elems(seq) == {seq[i] : i \in 1..Len(seq)}

\* a Version from a peer, handled to a normal return
VersionHandled ==
    last.op = "version" /\ last.result = "Ok" /\ last.msg.addr_from # Self

\* the one Addr of the call goes to the sender and carries the Registry as it is
\* when the Addr is sent: without the sender, if the connect of the send before it
\* was refused
OneAddrToSender ==
    /\ Len(SentOf(CmdAddr)) = 1
    /\ SentOf(CmdAddr)[1].to = last.msg.addr_from
    /\ Elems(SentOf(CmdAddr)[1].m.data.nodes) =
            IF Len(last.sent) = 2 /\ last.sent[1].out = "refused"
            THEN last.pre.known_nodes \ {last.msg.addr_from}
            ELSE last.pre.known_nodes

SenderRegistered ==
    /\ last.msg.addr_from \in known_nodes
    /\ known_nodes = last.pre.known_nodes \cup {last.msg.addr_from}

\* C5: a Version from a peer whose best_height is greater than the local one, handled
\* to a normal return, sends exactly one GetBlocks and exactly one Addr (the Registry
\* snapshot) to the sender and no Version, and the sender is in the Registry after.
C5_VersionFromHigherPeer ==
    (VersionHandled /\ last.msg.best_height > get_best_height(last.pre))
        => /\ Len(last.sent) = 2
           /\ Len(SentOf(CmdGetBlocks)) = 1
           /\ SentOf(CmdGetBlocks)[1].to = last.msg.addr_from
           /\ SentOf(CmdGetBlocks)[1].m.data = GetBlocksmsg(Self)
           /\ SentOf(CmdVersion) = <<>>
           /\ OneAddrToSender
           /\ SenderRegistered

C5_Witness ==
    /\ VersionHandled
    /\ last.msg.best_height > get_best_height(last.pre)
    /\ last.pre.known_nodes # {}
    /\ last.msg.addr_from \notin last.pre.known_nodes
    /\ Len(last.sent) = 2
    /\ last.sent[1].out = "ok"

\* C6: a Version from a peer whose best_height is lower than the local one, handled
\* to a normal return, sends exactly one Version carrying the local best_height to
\* the sender and no GetBlocks; with equal heights neither is sent; in both cases
\* exactly one Addr goes to the sender and the sender is in the Registry after.
C6_VersionFromLowerOrEqualPeer ==
    (VersionHandled /\ last.msg.best_height <= get_best_height(last.pre))
        => /\ SentOf(CmdGetBlocks) = <<>>
           /\ IF last.msg.best_height < get_best_height(last.pre)
              THEN /\ Len(last.sent) = 2
                   /\ Len(SentOf(CmdVersion)) = 1
                   /\ SentOf(CmdVersion)[1].to = last.msg.addr_from
                   /\ SentOf(CmdVersion)[1].m.data =
                        Versionmsg(Self, VERSION, get_best_height(last.pre))
              ELSE /\ Len(last.sent) = 1
                   /\ SentOf(CmdVersion) = <<>>
           /\ OneAddrToSender
           /\ SenderRegistered

C6_Witness ==
    /\ VersionHandled
    /\ last.msg.best_height < get_best_height(last.pre)
    /\ last.msg.best_height >= 0
    /\ last.msg.addr_from \notin last.pre.known_nodes
    /\ Len(SentOf(CmdVersion)) = 1
    /\ last.sent[1].out = "ok"

C6_WitnessEqual ==
    /\ VersionHandled
    /\ last.msg.best_height = get_best_height(last.pre)
    /\ Len(last.sent) = 1

\* C7: a Block from peer P is always appended to the ledger; when the call returns
\* normally, a Tracker [h1, ..., hn] with n >= 1 becomes [h2, ..., hn], exactly one
\* GetData(block, h1) is sent, to P, and nothing is reindexed; an empty Tracker stays
\* empty, one UTXO reindex is triggered and nothing is sent.
C7_BlockThenTracker ==
    (last.op = "block" /\ last.msg.addr_from # Self)
        => /\ chain = Append(last.pre.chain, last.msg.block)
           /\ last.result = "Ok" =>
                IF last.pre.blocks_in_transit # <<>>
                THEN /\ blocks_in_transit = Tail(last.pre.blocks_in_transit)
                     /\ last.reindex = 0
                     /\ Len(last.sent) = 1
                     /\ last.sent[1].to = last.msg.addr_from
                     /\ last.sent[1].m.cmd = CmdGetData
                     /\ last.sent[1].m.data =
                            GetDatamsg(Self, KindBlock, Head(last.pre.blocks_in_transit))
                ELSE /\ blocks_in_transit = <<>>
                     /\ last.reindex = 1
                     /\ last.sent = <<>>

C7_Witness ==
    /\ last.op = "block" /\ last.msg.addr_from # Self /\ last.result = "Ok"
    /\ Len(last.pre.blocks_in_transit) >= 2
    /\ Len(last.sent) = 1
    /\ last.sent[1].out = "ok"

C7_WitnessEmpty ==
    /\ last.op = "block" /\ last.result = "Ok"
    /\ last.pre.blocks_in_transit = <<>>
    /\ last.pre.chain # <<>>
    /\ last.reindex = 1

\* the SignResponse a reply frame decodes to
ReplyOf(frame) == bytes_to_cmd(frame)

ResponseIs(cmd, tx, success, error_message) ==
    /\ cmd.res = "Ok"
    /\ cmd.val.variant = "SignResponse"
    /\ cmd.val.data = SignResponseMsg(Self, tx, success, error_message)

\* C12: the SignRequest arm writes exactly one SignResponse per request and ends in
\* an error only when that write fails: without the wallet the response is a failure
\* with the wallet-not-found message and the request's transaction; when the signer
\* fails, a failure with the signer's message and the request's transaction; when
\* the signer succeeds, a success with the signed transaction and no message.
C12_OneSignResponse ==
    last.op = "signreq"
        => /\ last.result = "Ok" <=> last.write = "ok"
           /\ Len(last.reply) = IF last.write = "ok" THEN 1 ELSE 0
           /\ last.write = "ok" =>
                IF ~get_wallet(last.msg.address)
                THEN ResponseIs(ReplyOf(last.reply[1]), last.msg.transaction, FALSE,
                                WalletNotFound \o last.msg.address)
                ELSE IF last.signer_ok
                THEN ResponseIs(ReplyOf(last.reply[1]), Signed(last.msg.transaction),
                                TRUE, Empty)
                ELSE ResponseIs(ReplyOf(last.reply[1]), last.msg.transaction, FALSE,
                                SigningError \o SignerFault)
           /\ known_nodes = last.pre.known_nodes /\ chain = last.pre.chain

C12_Witness ==
    /\ last.op = "signreq"
    /\ get_wallet(last.msg.address)
    /\ ~last.signer_ok
    /\ ~last.msg.transaction.signed
    /\ Len(last.reply) = 1

C12_WitnessSigned ==
    /\ last.op = "signreq"
    /\ get_wallet(last.msg.address)
    /\ last.signer_ok
    /\ ~last.msg.transaction.signed
    /\ Len(last.reply) = 1

\* C15: the Registry is a set. After an Addr call it is the Registry of before
\* extended by the list; handling the same list again, adding a registered address
\* again and removing an unregistered address leave it as it is; an Addr call
\* changes nothing else and sends nothing.
C15_RegistrySetSemantics ==
    last.op = "addr"
        => /\ last.result = "Ok"
           /\ known_nodes = last.pre.known_nodes \cup Elems(last.msg.nodes)
           /\ handle_addr(Begin, last.msg.nodes).known_nodes = known_nodes
           /\ \A a \in known_nodes :
                add_nodes(add_nodes(Begin, a), a).known_nodes = known_nodes
           /\ \A a \in Addrs \ known_nodes :
                /\ remove_node(Begin, a).known_nodes = known_nodes
                /\ add_nodes(add_nodes(Begin, a), a).known_nodes = known_nodes \cup {a}
           /\ blocks_in_transit = last.pre.blocks_in_transit
           /\ mempool = last.pre.mempool
           /\ chain = last.pre.chain
           /\ last.sent = <<>>

\* an Addr call whose list, with a repeated address, was registered before
C15_Witness ==
    /\ last.op = "addr"
    /\ Len(last.msg.nodes) = 2
    /\ Elems(last.msg.nodes) \subseteq last.pre.known_nodes
    /\ Addrs \ known_nodes # {}

\* an Inv of blocks with at least one hash, from a peer, handled to a normal return
InvBlockHandled ==
    /\ last.op = "inv" /\ last.msg.kind = KindBlock /\ last.msg.items # <<>>
    /\ last.msg.addr_from # Self /\ last.result = "Ok"

OneGetDataForFirst ==
    /\ Len(last.sent) = 1
    /\ last.sent[1].to = last.msg.addr_from
    /\ last.sent[1].m.cmd = CmdGetData
    /\ last.sent[1].m.data = GetDatamsg(Self, KindBlock, last.msg.items[1])

\* C17: an Inv of blocks with a non-empty list sends GetData for the first hash to
\* the sender and leaves in the Tracker the list without its first element, in the
\* same order, whether or not the first hash occurs again in the list.
C17_InvBlockTrackerIsTail ==
    InvBlockHandled
        => OneGetDataForFirst /\ blocks_in_transit = Tail(last.msg.items)

\* the part of C17 the handler keeps: the request for the first hash, and a Tracker
\* holding the list without any occurrence of the first hash
C17_TrackerWithoutFirstHash ==
    InvBlockHandled
        => /\ OneGetDataForFirst
           /\ blocks_in_transit =
                SelectSeq(last.msg.items, LAMBDA b : b # last.msg.items[1])

\* C21: every Inv call ends without a fault of its thread; an Inv with an empty
\* item list sends no GetData and returns normally.
C21_InvHandledWithoutFault ==
    last.op = "inv"
        => /\ last.result # "Panic"
           /\ last.msg.items = <<>> => (last.sent = <<>> /\ last.result = "Ok")

\* the part of C21 the handler keeps: an Inv with at least one item, or of a kind
\* that is neither "block" nor "tx", ends without a fault
C21_NonEmptyInvNoFault ==
    (last.op = "inv" /\ (last.msg.items # <<>> \/ last.msg.kind \notin {KindBlock, KindTx}))
        => last.result # "Panic"

\* a node without blocks answers GetBlocks with an Inv whose item list is empty
C21_EmptyInvIsSent ==
    (last.op = "getblocks" /\ last.pre.chain = <<>> /\ last.sent # <<>>)
        => /\ last.sent[1].m.cmd = CmdInv
           /\ last.sent[1].m.data = Invmsg(Self, KindBlock, <<>>)

(***************************************************************************)
(* SpecTx: a node, with or without a mining address, handles transactions; *)
(* Addr messages fill its registry.                                        *)
(***************************************************************************)
TxInit ==
    /\ known_nodes = {}
    /\ blocks_in_transit = <<>>
    /\ mempool = EmptyMap
    /\ chain = <<>>
    /\ mining_address \in {Empty, Miner}
    /\ last = NoCall
    /\ CodecIdle /\ ConnIdle /\ ParIdle /\ NetIdle
TxNext == HandleAddr \/ HandleTx \/ Forget
SpecTx == TxInit /\ [][TxNext]_vars

\* the Inv(tx) and the Inv(block) sends of the last call
TxInvs == SelectSeq(last.sent, LAMBDA a : a.m.cmd = CmdInv /\ a.m.data.kind = KindTx)
BlockInvs(hash) ==
    SelectSeq(last.sent, LAMBDA a : a.m.cmd = CmdInv /\ a.m.data.kind = KindBlock
                                     /\ a.m.data.items = <<hash>>)
Refused == {last.sent[i].to : i \in {j \in 1..Len(last.sent) : last.sent[j].out = "refused"}}
RelayTargets == last.pre.known_nodes \ {Self, last.msg.addr_from}
MinedIds == UNION {Elems(last.mined[k].txs) : k \in 1..Len(last.mined)}

\* the Mempool the mining loop starts from
PoolOfCall == MapPut(last.pre.mempool, last.msg.transaction.id, last.msg.transaction)

\* C8: a Tx from peer P, handled to a normal return, is inserted into the Mempool
\* under its id (on a mining node it may leave it again inside a mined block), and
\* exactly one Inv(tx, [id]) is sent to each known peer other than the node itself
\* and P, and none to anyone else.
C8_TxRelay ==
    (last.op = "tx" /\ last.result = "Ok")
        => /\ mining_address = Empty => mempool = PoolOfCall
           /\ \/ /\ last.msg.transaction.id \in DOMAIN mempool
                 /\ mempool[last.msg.transaction.id] = last.msg.transaction
              \/ last.msg.transaction.id \in MinedIds
           /\ SentTo(TxInvs) = RelayTargets
           /\ Len(TxInvs) = Cardinality(RelayTargets)
           /\ \A i \in 1..Len(TxInvs) :
                TxInvs[i].m.data = Invmsg(Self, KindTx, <<last.msg.transaction.id>>)

C8_Witness ==
    /\ last.op = "tx" /\ last.result = "Ok"
    /\ last.msg.addr_from = P
    /\ last.pre.known_nodes = {Self, P, Q, R}
    /\ SentTo(TxInvs) = {Q, R}
    /\ last.pre.mempool # EmptyMap
    /\ last.msg.transaction.id \notin DOMAIN last.pre.mempool
    /\ last.msg.transaction.id \in DOMAIN mempool

\* a mining burst: a Tx handled to a normal return on a node with a mining address
\* whose Mempool then holds a transaction that verifies
Burst ==
    /\ last.op = "tx" /\ last.result = "Ok"
    /\ mining_address # Empty
    /\ \E id \in DOMAIN PoolOfCall : verify_tx(last.pre, PoolOfCall[id])

\* every mined block holds transactions of the Mempool, each verified against the
\* ledger the block is mined on, and one coinbase, the last
BlocksHoldVerified ==
    \A k \in 1..Len(last.mined) :
        LET txs == last.mined[k].txs
            on == [chain |-> SubSeq(chain, 1, Len(last.pre.chain) + k - 1)]
        IN  /\ Len(txs) >= 2
            /\ txs[Len(txs)] = CoinbaseId(Len(on.chain))
            /\ \A i \in 1..Len(txs) - 1 :
                    /\ txs[i] \in DOMAIN PoolOfCall
                    /\ verify_tx(on, PoolOfCall[txs[i]])

\* one Inv(block) per mined block to every known peer except the node itself
BlocksAnnounced ==
    \A k \in 1..Len(last.mined) :
        LET invs == BlockInvs(last.mined[k].hash)
        IN  /\ SentTo(invs) \subseteq last.pre.known_nodes \ {Self}
            /\ (last.pre.known_nodes \ {Self}) \ Refused \subseteq SentTo(invs)
            /\ Len(invs) = Cardinality(SentTo(invs))

\* C3: after a mining burst at least one block is mined, every mined block holds
\* only verified transactions plus one coinbase, one Inv(block) per mined block goes
\* to every known peer except the node itself, and the Mempool is empty when the
\* handler returns.
C3_MiningBurstEmptiesMempool ==
    Burst => /\ last.mined # <<>>
             /\ BlocksHoldVerified
             /\ BlocksAnnounced
             /\ DOMAIN mempool = {}

\* the part of C3 that the handler keeps: everything but the empty Mempool
C3_BlocksOfBurst ==
    Burst => last.mined # <<>> /\ BlocksHoldVerified /\ BlocksAnnounced

\* C9: during the broadcasts of a Tx call a failed send to one peer, be it a
\* refused connect or a failed write on an established connection, never ends the
\* loop: the handler completes and every peer of the snapshot has been sent the
\* Inv(tx).
C9_FailedSendNeverAborts ==
    last.op = "tx"
        => /\ last.result = "Ok"
           /\ SentTo(TxInvs) = RelayTargets
           /\ BlocksAnnounced

\* the part of C9 that send_data keeps: a refused connect evicts the peer and the
\* loops go on; a failed write is the last send of the call, which returns Err
C9_RefusedConnectSwallowed ==
    last.op = "tx"
        => /\ (\A i \in 1..Len(last.sent) : last.sent[i].out # "reset")
                => /\ last.result = "Ok"
                   /\ SentTo(TxInvs) = RelayTargets
                   /\ BlocksAnnounced
           /\ \A i \in 1..Len(last.sent) :
                last.sent[i].out = "reset" => i = Len(last.sent) /\ last.result = "Err"
           /\ Refused \cap known_nodes = {}

\* C11: a peer whose connect a handler call found refused is not in the Registry
\* when that call returns, whatever the handler (the Version handler included).
C11_RefusedPeerEvictedAtReturn ==
    last.op # "none" => Refused \cap known_nodes = {}

\* the part of C11 that send_data keeps: a refused connect is followed at once by
\* remove_node, so the peer is out of the Registry unless the handler is the Version
\* handler, which registers the sender again
C11_EvictedUnlessVersion ==
    (last.op # "none" /\ last.op # "version") => Refused \cap known_nodes = {}

\* the ids this Tx call announced to a peer that received the Inv(tx)
Announced ==
    {<<TxInvs[i].to, TxInvs[i].m.data.items[1]>> :
        i \in {j \in 1..Len(TxInvs) : TxInvs[j].out = "ok"}}

\* the GetData(tx, id) of peer p, handled in the state the node is in now
Served(p, id) ==
    Return(handle_get_data(Begin, OnlyPeer(p, "ok"), GetDatamsg(p, KindTx, id)), "Ok")

TxSentBack(call, p, id) ==
    /\ call.result = "Ok"
    /\ Len(call.sent) = 1
    /\ call.sent[1].to = p
    /\ call.sent[1].m.cmd = CmdTx
    /\ call.sent[1].m.data.transaction.id = id

\* C18: when a Tx call has returned, every id it announced to a peer with Inv(tx)
\* is still in the Mempool, and that peer's GetData(tx, id) is answered with the
\* transaction, on a mining node as well.
C18_AnnouncedTxIsServed ==
    (last.op = "tx" /\ last.result = "Ok")
        => \A a \in Announced :
                a[2] \in DOMAIN mempool /\ TxSentBack(Served(a[1], a[2]), a[1], a[2])

\* the part of C18 the handlers keep: on a node that does not mine
C18_ServedWithoutMining ==
    (last.op = "tx" /\ last.result = "Ok" /\ mining_address = Empty)
        => \A a \in Announced :
                a[2] \in DOMAIN mempool /\ TxSentBack(Served(a[1], a[2]), a[1], a[2])

C18_ServedWitness ==
    /\ last.op = "tx" /\ last.result = "Ok" /\ mining_address = Empty
    /\ Announced # {}

\* the transactions of the Mempool that a mined block holds: all but the coinbase
PoolTxs(block) == Elems(SubSeq(block.txs, 1, Len(block.txs) - 1))
AnyBlockInvs ==
    SelectSeq(last.sent, LAMBDA a : a.m.cmd = CmdInv /\ a.m.data.kind = KindBlock)
NoneVerifies == \A id \in DOMAIN PoolOfCall : ~verify_tx(last.pre, PoolOfCall[id])

\* C23: on a mining node every block of a Tx call takes at least one transaction
\* out of the Mempool snapshot and no two blocks take the same one, so the call
\* mines at most as many blocks as the snapshot holds transactions; when no
\* transaction of the snapshot verifies, no block is mined, no Inv(block) is sent,
\* nothing is reindexed and the Mempool stays as the insert left it.
C23_MiningLoopIsBounded ==
    (last.op = "tx" /\ mining_address # Empty)
        => /\ last.result # "run"
           /\ Len(last.mined) <= Cardinality(DOMAIN PoolOfCall)
           /\ \A k \in 1..Len(last.mined) :
                /\ PoolTxs(last.mined[k]) # {}
                /\ PoolTxs(last.mined[k]) \subseteq DOMAIN PoolOfCall
                /\ \A j \in 1..(k - 1) :
                        PoolTxs(last.mined[j]) \cap PoolTxs(last.mined[k]) = {}
           /\ NoneVerifies =>
                /\ last.mined = <<>>
                /\ AnyBlockInvs = <<>>
                /\ last.reindex = 0
                /\ chain = last.pre.chain
                /\ mempool = PoolOfCall
                /\ TxInvs = last.sent
                /\ (\A i \in 1..Len(last.sent) : last.sent[i].out # "reset")
                        => last.result = "Ok"

\* a burst of two blocks out of a snapshot of three transactions, one of which
\* never verifies
C23_Witness ==
    /\ last.op = "tx" /\ mining_address # Empty /\ last.result = "Ok"
    /\ Cardinality(DOMAIN PoolOfCall) = 3
    /\ Len(last.mined) = 2
    /\ last.pre.known_nodes # {}

\* a snapshot of two transactions none of which verifies, on a node with a peer
C23_WitnessNoneVerifies ==
    /\ last.op = "tx" /\ mining_address # Empty /\ last.result = "Ok"
    /\ Cardinality(DOMAIN PoolOfCall) = 2
    /\ NoneVerifies
    /\ P \in last.pre.known_nodes

(***************************************************************************)
(* SpecConn: one TCP connection.  The client end is a Server instance at   *)
(* address client.me running send_data (lines 260-276) or the signing RPC  *)
(* send_sign_request (lines 511-565) towards client.addr; the server end   *)
(* is the instance listening there, running handle_connection (lines       *)
(* 624-658) on the shared state above.                                     *)
(***************************************************************************)
READ_BUF == 4096        \* vec![0; 4096], line 627
RPC_BUF == 10240        \* vec![0; 10240], line 541

\* Vec::truncate; Read::read_to_end, which appends to the buffer and returns the
\* count read; Read::read, which fills the buffer from its start
truncate(buf, n) == IF n < Len(buf) THEN SubSeq(buf, 1, n) ELSE buf
read_to_end(buf, data) == [buffer |-> buf \o data, count |-> Len(data)]
Min(a, b) == IF a < b THEN a ELSE b
read(buf, data) ==
    [buffer |-> [i \in 1..Len(buf) |-> IF i <= Len(data) THEN data[i] ELSE buf[i]],
     count |-> Min(Len(buf), Len(data))]
Zeros(n) == [i \in 1..n |-> 0]

OpenStream(bytes, closed) ==
    [open |-> TRUE, c2s |-> bytes, c_closed |-> closed, s2c |-> <<>>, s_closed |-> FALSE]

Accepted == [pc |-> "accepted", buffer |-> <<>>, result |-> "none", cmd |-> NotDecoded]

Sender(me, addr, m, connects, evicted, result) ==
    [pc |-> "done", op |-> "send", me |-> me, addr |-> addr, m |-> m,
     connects |-> connects, evicted |-> evicted, result |-> result]

\* send_data of the instance at `me`: a no-op towards its own address; a refused
\* connect is swallowed; otherwise the bytes are written and the stream dropped
ClientSendData(me, addr, m, reach) ==
    /\ client.pc = "idle"
    /\ IF addr = me
       THEN /\ client' = Sender(me, addr, m, 0, {}, Ok(<<>>))
            /\ UNCHANGED <<stream, server>>
       ELSE IF reach = "refused"
       THEN /\ client' = Sender(me, addr, m, 1, {addr}, Ok(<<>>))
            /\ UNCHANGED <<stream, server>>
       ELSE IF reach = "reset"
       THEN /\ client' = Sender(me, addr, m, 1, {}, Err("write"))
            /\ stream' = OpenStream(<<>>, TRUE)
            /\ server' = Accepted
       ELSE /\ client' = Sender(me, addr, m, 1, {}, Ok(<<>>))
            /\ stream' = OpenStream(encode(m), TRUE)
            /\ server' = Accepted
    /\ UNCHANGED <<nodeVars, codecVars, netVars, parVars>>

ClientSend ==
    \E m \in SampleOut, addr \in {Self, P}, reach \in Outcomes :
        ClientSendData(P, addr, m, reach)

\* bytes no send operation writes: a payload under a tag that is none of the nine,
\* and the first bytes of an encoded message
RawFrames ==
    {t \o ser_payload(Out(CmdTx, Txmsg(P, T1))) : t \in {TagFoo, TagZero, TagGapTx, TagHigh}}
    \cup {TagFoo, <<>>}
    \cup {SubSeq(encode(Out(CmdInv, Invmsg(P, KindBlock, <<H1, H2>>))), 1, n) : n \in {5, 12, 20}}

\* a peer that is not this program connects, writes raw bytes and closes
ClientSendRaw ==
    /\ client.pc = "idle"
    /\ \E bytes \in RawFrames :
        /\ client' = [pc |-> "done", op |-> "raw", me |-> P, addr |-> Self, bytes |-> bytes,
                      connects |-> 1, evicted |-> {}, result |-> Ok(<<>>)]
        /\ stream' = OpenStream(bytes, TRUE)
    /\ server' = Accepted
    /\ UNCHANGED <<nodeVars, codecVars, netVars, parVars>>

\* send_sign_request up to the blocking read, lines 517-542
SignReqs == {SignRequestMsg(me, a, t) : me \in {Self, P}, a \in {Miner, Empty}, t \in SampleTx}

RpcConnect ==
    /\ client.pc = "idle"
    /\ \E req \in SignReqs, addr \in {Self, P}, reach \in Outcomes :
        LET c == [pc |-> "waiting", op |-> "rpc", me |-> req.addr_from, addr |-> addr,
                  m |-> Out(CmdSignReq, req), connects |-> 1, evicted |-> {},
                  result |-> NotDecoded]
        IN  IF reach = "refused"
            THEN /\ client' = [c EXCEPT !.pc = "done", !.evicted = {addr},
                                        !.result = Err("Connection failed")]
                 /\ UNCHANGED <<stream, server>>
            ELSE IF reach = "reset"
            THEN /\ client' = [c EXCEPT !.pc = "done", !.result = Err("write")]
                 /\ stream' = OpenStream(<<>>, TRUE)
                 /\ server' = Accepted
            ELSE /\ client' = c
                 /\ stream' = OpenStream(encode(Out(CmdSignReq, req)), FALSE)
                 /\ server' = Accepted
    /\ UNCHANGED <<nodeVars, codecVars, netVars, parVars>>

\* lines 545-564: what the RPC returns for the `count` bytes read, decoded to cmd
sign_result(count, cmd) ==
    IF count = 0 THEN Err("Empty response from server")
    ELSE IF cmd.res # "Ok" THEN cmd
    ELSE IF cmd.val.variant # "SignResponse" THEN Err("Unexpected response from server")
    ELSE IF cmd.val.data.success THEN Ok(cmd.val.data.transaction)
    ELSE Err("Transaction sign failed")

\* buffer.truncate(count) after a read / a read_to_end into buffer
Truncated(got) == truncate(got.buffer, got.count)

\* the read of line 543 returns: with the bytes the server wrote, or with 0 bytes
\* once the server has closed; lines 543-564
RpcRead ==
    /\ client.pc = "waiting"
    /\ stream.s2c # <<>> \/ stream.s_closed
    /\ client' = [client EXCEPT
                    !.pc = "done",
                    !.result = sign_result(Min(RPC_BUF, Len(stream.s2c)),
                                           bytes_to_cmd(Truncated(read(Zeros(RPC_BUF),
                                                                       stream.s2c))))]
    /\ stream' = [stream EXCEPT !.c_closed = TRUE]
    /\ UNCHANGED <<server, nodeVars, codecVars, netVars, parVars>>

\* the read of line 543 fails once the 30 s of set_read_timeout have passed with
\* nothing to read
RpcTimeout ==
    /\ client.pc = "waiting"
    /\ stream.s2c = <<>> /\ ~stream.s_closed
    /\ client' = [client EXCEPT !.pc = "done", !.result = Err("timed out")]
    /\ stream' = [stream EXCEPT !.c_closed = TRUE]
    /\ UNCHANGED <<server, nodeVars, codecVars, netVars, parVars>>

\* lines 625-631: read_to_end returns when the peer has closed its side
ServerRead ==
    /\ server.pc = "accepted"
    /\ stream.c_closed
    /\ server' = [server EXCEPT
                    !.pc = "read",
                    !.buffer = Truncated(read_to_end(Zeros(READ_BUF), stream.c2s))]
    /\ UNCHANGED <<stream, client, nodeVars, codecVars, netVars, parVars>>

ServerDone(result, cmd) ==
    /\ server' = [server EXCEPT !.pc = "done", !.result = result, !.cmd = cmd]
    /\ stream' = [stream EXCEPT !.s_closed = TRUE]

\* the handler the match of lines 635-655 calls for a message
Handled(msg, net, order) ==
    CASE msg.variant = "Addr" -> handle_addr(Begin, msg.data.nodes)
      [] msg.variant = "Block" -> handle_block(Begin, net, msg.data)
      [] msg.variant = "Inv" -> handle_inv(Begin, net, msg.data)
      [] msg.variant = "GetBlock" -> handle_get_blocks(Begin, net, msg.data)
      [] msg.variant = "GetData" -> handle_get_data(Begin, net, msg.data)
      [] msg.variant = "Tx" -> handle_tx(Begin, net, order, mining_address, msg.data)
      [] msg.variant = "Version" -> handle_version(Begin, net, msg.data)

Finish(cmd, st) ==
    /\ Effects(cmd.val.variant, cmd.val.data, st)
    /\ ServerDone(Return(st, "Ok").result, cmd)

\* the SignRequest arm, lines 644-653: the response is written to the stream
Respond(cmd, response) ==
    /\ server' = [server EXCEPT !.pc = "done", !.result = "Ok", !.cmd = cmd]
    /\ stream' = [stream EXCEPT !.s2c = encode(Out(CmdSignRes, response)), !.s_closed = TRUE]
    /\ UNCHANGED nodeVars

\* the match of lines 635-655
Dispatch(cmd) ==
    IF cmd.val.variant = "SignRequest"
    THEN \E signer_ok \in BOOLEAN :
            Respond(cmd, prepare_sign_response(cmd.val.data, signer_ok))
    ELSE IF cmd.val.variant = "SignResponse"
    THEN ServerDone("Ok", cmd) /\ UNCHANGED nodeVars
    ELSE \E net \in Nets, order \in Orders(known_nodes) :
            Finish(cmd, Handled(cmd.val, net, order))

\* a faulty variant of Decoded, against which C14 is tested: a frame that does not
\* decode still registers a node
Decoded_registers(cmd) ==
    IF cmd.res # "Ok"
    THEN /\ ServerDone(cmd.res, NotDecoded)
         /\ known_nodes' = known_nodes \cup {P}
         /\ UNCHANGED <<blocks_in_transit, mempool, chain, mining_address, last>>
    ELSE Dispatch(cmd)

\* lines 633-657
Decoded(cmd) ==
    IF cmd.res # "Ok"
    THEN ServerDone(cmd.res, NotDecoded) /\ UNCHANGED nodeVars
    ELSE Dispatch(cmd)

ServerHandle ==
    /\ server.pc = "read"
    /\ Decoded(bytes_to_cmd(server.buffer))
    /\ UNCHANGED <<client, codecVars, netVars, parVars>>

\* the listener at client.addr need not be this program: a responder that answers
\* on receipt, without waiting for the end of the request
Replies ==
    {encode(Out(CmdSignRes, SignResponseMsg(P, t, ok, e))) :
        t \in SampleTx, ok \in BOOLEAN, e \in {Empty, SignerFault}}
    \cup {encode(Out(CmdTx, Txmsg(P, T1))), <<>>, <<1, 2, 3>>, TagFoo}

ForeignReply ==
    /\ client.pc = "waiting"
    /\ server.pc = "accepted"
    /\ \E bytes \in Replies :
        stream' = [stream EXCEPT !.s2c = bytes, !.s_closed = TRUE]
    /\ server' = [server EXCEPT !.pc = "foreign"]
    /\ UNCHANGED <<client, nodeVars, codecVars, netVars, parVars>>

ConnInit == NodeNew /\ CodecIdle /\ ConnIdle /\ ParIdle /\ NetIdle
ConnNext ==
    \/ ClientSend
    \/ ClientSendRaw
    \/ RpcConnect
    \/ RpcRead
    \/ RpcTimeout
    \/ ForeignReply
    \/ ServerRead
    \/ ServerHandle
SpecConn == ConnInit /\ [][ConnNext]_vars

\* C1: when a peer opens a connection and writes one encoded message, the node's
\* connection handler decodes exactly the bytes that were written and dispatches to
\* the handler of the message's kind with the payload that was sent.
C1_ConnectionDecodesAndDispatches ==
    (client.pc = "done" /\ client.op = "send" /\ stream.open
        /\ client.result.res = "Ok" /\ server.pc = "done")
        => /\ server.buffer = stream.c2s
           /\ server.cmd.res = "Ok"
           /\ server.cmd.val = Message(VariantOf(client.m.cmd), client.m.data)

\* C2: a signing RPC sent to a reachable peer that runs handle_connection and holds
\* the named wallet returns Ok with the signed transaction.
C2_SignRpcRoundTrip ==
    (client.pc = "done" /\ client.op = "rpc" /\ stream.open /\ stream.c2s # <<>>
        /\ server.pc # "foreign" /\ get_wallet(client.m.data.address))
        => /\ client.result.res = "Ok"
           /\ client.result.val = Signed(client.m.data.transaction)

\* C10: no outbound operation, the signing RPC included, opens a connection to the
\* instance's own address: with the target equal to its own address it connects to
\* nothing, evicts nothing and reaches no connection handler.
C10_NeverConnectsToSelf ==
    (client.pc # "idle" /\ client.addr = client.me)
        => /\ client.connects = 0
           /\ client.evicted = {}
           /\ ~stream.open

C14_WitnessShort ==
    /\ server.pc = "done" /\ server.cmd = NotDecoded /\ server.result = "Panic"
    /\ client.op = "raw" /\ client.bytes # <<>>

(***************************************************************************)
(* SpecSync: one block-sync session with peer P.  P announces a list of    *)
(* distinct hashes with Inv(block) and then delivers, one at a time, the   *)
(* block of each GetData that reached it; `events` is the session's        *)
(* history: the messages handled and, after each, what its handler sent    *)
(* and whether it reindexed.                                               *)
(***************************************************************************)
H3 == <<104, 51>>               \* "h3"
SyncHashes == {H1, H2, H3}
SyncLists ==
    {l \in SeqsUpTo(SyncHashes, MaxSync) :
        l # <<>> /\ \A i, j \in 1..Len(l) : i # j => l[i] # l[j]}
SyncNets == {OnlyPeer(P, out) : out \in Outcomes}

\* what a call did, in the order it did it
SyncLog(st) ==
    [i \in 1..Len(st.sent) |->
        [ev |-> "send", to |-> st.sent[i].to, m |-> st.sent[i].m, out |-> st.sent[i].out]]
    \o [i \in 1..st.reindex |-> [ev |-> "reindex"]]

SyncApply(st, ev) ==
    /\ known_nodes' = st.known_nodes
    /\ blocks_in_transit' = st.blocks_in_transit
    /\ mempool' = st.mempool
    /\ chain' = st.chain
    /\ events' = (events \o <<ev>>) \o SyncLog(st)
    /\ UNCHANGED <<mining_address, last, threads, lock, codecVars, netVars, connVars>>

SyncInv ==
    /\ events = <<>>
    /\ \E items \in SyncLists, net \in SyncNets :
        SyncApply(handle_inv(Begin, net, Invmsg(P, KindBlock, items)),
                  [ev |-> "inv", items |-> items])

\* P answers the GetData that reached it last with the block of that hash
SyncDeliver(e) ==
    /\ e.ev = "send" /\ e.out = "ok"
    /\ \E net \in SyncNets :
        SyncApply(handle_block(Begin, net, Blockmsg(P, Block(e.m.data.id, <<>>))),
                  [ev |-> "block", hash |-> e.m.data.id])

SyncBlock ==
    /\ events # <<>>
    /\ SyncDeliver(events[Len(events)])

SyncInit ==
    /\ known_nodes \in {{}, {P}, {P, Q}}
    /\ blocks_in_transit \in {<<>>, <<H1>>}
    /\ mempool = EmptyMap
    /\ chain = <<>>
    /\ mining_address = Empty
    /\ last = NoCall
    /\ CodecIdle /\ ConnIdle /\ ParIdle /\ NetIdle
SyncNext == SyncInv \/ SyncBlock
SpecSync == SyncInit /\ [][SyncNext]_vars

SyncSends == SelectSeq(events, LAMBDA e : e.ev = "send")
SyncBlocks == SelectSeq(events, LAMBDA e : e.ev = "block")
SyncReindexes == SelectSeq(events, LAMBDA e : e.ev = "reindex")

\* a session all of whose requests reached P
SyncDelivered ==
    /\ events # <<>>
    /\ \A i \in 1..Len(SyncSends) : SyncSends[i].out = "ok"

\* C19: in a sync session with P whose requests all reach P, after Inv(block,
\* [h1..hn]) and k delivered blocks: the GetData sent so far are for h1..h(k+1)
\* (h1..hn once k = n), each once, in this order and to P, so at most one is
\* unanswered; the Tracker holds the hashes not yet requested; the ledger holds
\* the k blocks; the UTXO reindex has run once if k = n, as the last thing the
\* handler of hn's block did, and not at all before.
C19_PipelinedBlockSync ==
    SyncDelivered
        => /\ Len(SyncSends) = Min(Len(SyncBlocks) + 1, Len(events[1].items))
           /\ \A i \in 1..Len(SyncSends) :
                /\ SyncSends[i].to = P
                /\ SyncSends[i].m = Out(CmdGetData,
                                        GetDatamsg(Self, KindBlock, events[1].items[i]))
           /\ \A i \in 1..Len(SyncBlocks) : SyncBlocks[i].hash = events[1].items[i]
           /\ blocks_in_transit =
                SubSeq(events[1].items, Len(SyncSends) + 1, Len(events[1].items))
           /\ chain = [i \in 1..Len(SyncBlocks) |-> Block(events[1].items[i], <<>>)]
           /\ Len(SyncReindexes) =
                IF Len(SyncBlocks) = Len(events[1].items) THEN 1 ELSE 0
           /\ Len(SyncBlocks) = Len(events[1].items)
                => events[Len(events)].ev = "reindex"

\* a session of three hashes, run to its end
C19_Witness ==
    /\ SyncDelivered
    /\ Len(events[1].items) = 3
    /\ Len(SyncBlocks) = 3
    /\ Len(SyncReindexes) = 1

\* a session of three hashes, one block in, one request unanswered
C19_WitnessMidway ==
    /\ SyncDelivered
    /\ Len(events[1].items) = 3
    /\ Len(SyncBlocks) = 1
    /\ Len(SyncSends) = 2
    /\ blocks_in_transit = <<events[1].items[3]>>

(***************************************************************************)
(* SpecPar: two connection threads of a mining node run handlers side by   *)
(* side.  A step of a thread is one acquisition of the lock (an accessor   *)
(* of lines 175-256, enabled while the lock is free) or one send_data      *)
(* (connect and write).  The verify_tx calls of one pass of the mining     *)
(* loop are one step.  `events` logs the GetData sent and the writes of    *)
(* the Tracker.                                                            *)
(***************************************************************************)
Threads == {1, 2}
H4 == <<104, 52>>               \* "h4"
B3 == Block(H3, <<>>)

Idle == [pc |-> "idle", op |-> "none"]
Thread(op, msg, pc, todo, next) ==
    [pc |-> pc, op |-> op, msg |-> msg, local |-> <<>>, pool |-> EmptyMap, ids |-> <<>>,
     todo |-> todo, next |-> next, result |-> "run"]

To(addr, m) == [to |-> addr, m |-> m]

\* what the threads are given: decoded messages, and a SignRequest for the routine
\* handle_sign_request, which no arm of handle_connection calls
ParMsgs ==
    {Message("Block", Blockmsg(P, B3)),
     Message("Inv", Invmsg(P, KindBlock, <<H3, H4>>)),
     Message("Tx", Txmsg(P, T1)),
     Message("Tx", Txmsg(P, T3)),
     Message("SignRequest", SignRequestMsg(P, Miner, T1)),
     Message("handle_sign_request", SignRequestMsg(P, Miner, T1)),
     Message("handle_sign_request", SignRequestMsg(P, Empty, T1))}

\* the first position of each handler
Start(m) ==
    IF m.variant = "Inv"
    THEN Thread(m.variant, m.data, "send",
                <<To(m.data.addr_from,
                     Out(CmdGetData, GetDatamsg(Self, KindBlock, m.data.items[1])))>>,
                "replace")
    ELSE Thread(m.variant, m.data, "start", <<>>, "done")

Store(st) ==
    /\ known_nodes' = st.known_nodes
    /\ blocks_in_transit' = st.blocks_in_transit
    /\ mempool' = st.mempool
    /\ chain' = st.chain

Same == UNCHANGED <<known_nodes, blocks_in_transit, mempool, chain>>
ParFrame == UNCHANGED <<mining_address, last, codecVars, netVars, connVars>>

Goto(t, th) == threads' = [threads EXCEPT ![t] = th]
At(t, op, pc) == threads[t].pc = pc /\ threads[t].op = op
Finished(th, r) == [th EXCEPT !.pc = "done", !.result = r]

\* the thread moves on to its sends, or past them when there are none
Sending(th, todo, next) ==
    IF todo = <<>>
    THEN IF next = "done" THEN Finished(th, "Ok") ELSE [th EXCEPT !.pc = next]
    ELSE [th EXCEPT !.pc = "send", !.todo = todo, !.next = next]

\* P announces its list of hashes once
Announces(m) == m.variant = "Inv" => \A u \in Threads : threads[u].op # "Inv"

\* lines 152-160: a connection is accepted and its thread is spawned
Accept(t) ==
    /\ threads[t].pc = "idle"
    /\ \E m \in ParMsgs : Announces(m) /\ Goto(t, Start(m))
    /\ Same /\ ParFrame /\ UNCHANGED <<lock, events>>

(*************************** send_data, lines 260-276 **********************)
SendNext(th) == Sending(th, Tail(th.todo), th.next)

Sent(t, a, out) ==
    [ev |-> "send", t |-> t, to |-> a.to, m |-> a.m, out |-> out]

\* the log keeps the GetData requests
Logged(e) == IF e.m.cmd = CmdGetData THEN Append(events, e) ELSE events

Send(t) ==
    /\ threads[t].pc = "send"
    /\ \E out \in Outcomes :
        /\ events' = Logged(Sent(t, Head(threads[t].todo), out))
        /\ IF out = "ok"
           THEN Goto(t, SendNext(threads[t])) /\ UNCHANGED lock
           ELSE IF out = "refused"
           THEN Goto(t, [threads[t] EXCEPT !.pc = "evict"]) /\ UNCHANGED lock
           ELSE /\ Goto(t, Finished(threads[t], "Err"))
                /\ lock' = IF lock = t THEN Free ELSE lock
    /\ Same /\ ParFrame

\* remove_node after a refused connect, lines 266-269
Evict(t) ==
    /\ threads[t].pc = "evict"
    /\ lock = Free
    /\ Store(remove_node(Begin, Head(threads[t].todo).to))
    /\ Goto(t, SendNext(threads[t]))
    /\ ParFrame /\ UNCHANGED <<lock, events>>

(*************************** handle_block, lines 386-405 *******************)
BlockAdd(t) ==
    /\ At(t, "Block", "start")
    /\ lock = Free
    /\ Store(add_block(Begin, threads[t].msg.block))
    /\ Goto(t, [threads[t] EXCEPT !.pc = "get"])
    /\ ParFrame /\ UNCHANGED <<lock, events>>

BlockGet(t) ==
    /\ At(t, "Block", "get")
    /\ lock = Free
    /\ Goto(t, IF get_in_transit(Begin) = <<>>
               THEN [threads[t] EXCEPT !.pc = "reindex"]
               ELSE Sending([threads[t] EXCEPT !.local = get_in_transit(Begin)],
                            <<To(threads[t].msg.addr_from,
                                 Out(CmdGetData, GetDatamsg(Self, KindBlock,
                                                            get_in_transit(Begin)[1])))>>,
                            "replace"))
    /\ Same /\ ParFrame /\ UNCHANGED <<lock, events>>

Replaced(t, hashs, requested) ==
    [ev |-> "replace", t |-> t, op |-> threads[t].op, before |-> blocks_in_transit,
     after |-> hashs, requested |-> requested]

BlockReplace(t) ==
    /\ At(t, "Block", "replace")
    /\ lock = Free
    /\ Store(replace_in_transit(Begin, Tail(threads[t].local)))
    /\ events' = Append(events, Replaced(t, Tail(threads[t].local), threads[t].local[1]))
    /\ Goto(t, Finished(threads[t], "Ok"))
    /\ ParFrame /\ UNCHANGED lock

\* utxo_reindex, in handle_block (line 401) and in the mining loop (line 492)
Reindex(t) ==
    /\ threads[t].pc = "reindex"
    /\ lock = Free
    /\ Goto(t, IF threads[t].op = "Block" THEN Finished(threads[t], "Ok")
               ELSE [threads[t] EXCEPT !.pc = "announce"])
    /\ Same /\ ParFrame /\ UNCHANGED <<lock, events>>

(*************************** handle_inv, lines 407-419 *********************)
InvReplace(t) ==
    /\ At(t, "Inv", "replace")
    /\ lock = Free
    /\ Store(replace_in_transit(Begin,
                SelectSeq(threads[t].msg.items, LAMBDA b : b # threads[t].msg.items[1])))
    /\ events' = Append(events,
                Replaced(t, SelectSeq(threads[t].msg.items,
                                      LAMBDA b : b # threads[t].msg.items[1]),
                         threads[t].msg.items[1]))
    /\ Goto(t, Finished(threads[t], "Ok"))
    /\ ParFrame /\ UNCHANGED lock

(*************************** handle_tx, lines 453-509 **********************)
InvTo(nodes, kind, items) ==
    [i \in 1..Len(nodes) |-> To(nodes[i], Out(CmdInv, Invmsg(Self, kind, items)))]

TxInsert(t) ==
    /\ At(t, "Tx", "start")
    /\ lock = Free
    /\ Store(insert_mempool(Begin, threads[t].msg.transaction))
    /\ Goto(t, [threads[t] EXCEPT !.pc = "nodes"])
    /\ ParFrame /\ UNCHANGED <<lock, events>>

TxNodes(t) ==
    /\ At(t, "Tx", "nodes")
    /\ lock = Free
    /\ Goto(t, Sending(threads[t],
                       InvTo(SeqOf(get_known_nodes(Begin) \ {Self, threads[t].msg.addr_from}),
                             KindTx, <<threads[t].msg.transaction.id>>),
                       IF mining_address # Empty THEN "snapshot" ELSE "done"))
    /\ Same /\ ParFrame /\ UNCHANGED <<lock, events>>

TxSnapshot(t) ==
    /\ At(t, "Tx", "snapshot")
    /\ lock = Free
    /\ Goto(t, IF DOMAIN get_mempool(Begin) = {} THEN Finished(threads[t], "Ok")
               ELSE [threads[t] EXCEPT !.pc = "verify", !.pool = get_mempool(Begin)])
    /\ Same /\ ParFrame /\ UNCHANGED <<lock, events>>

Verified(pool) == {pool[k].id : k \in {x \in DOMAIN pool : verify_tx(Begin, pool[x])}}

TxVerify(t) ==
    /\ At(t, "Tx", "verify")
    /\ lock = Free
    /\ Goto(t, IF Verified(threads[t].pool) = {} THEN Finished(threads[t], "Ok")
               ELSE [threads[t] EXCEPT
                        !.pc = "mine",
                        !.ids = SeqOf(Verified(threads[t].pool)),
                        !.pool = MapDrop(@, Verified(threads[t].pool))])
    /\ Same /\ ParFrame /\ UNCHANGED <<lock, events>>

TxMine(t) ==
    /\ At(t, "Tx", "mine")
    /\ lock = Free
    /\ Store(mine_block(Begin, threads[t].ids \o <<new_coinbase(Begin).id>>))
    /\ Goto(t, [threads[t] EXCEPT !.pc = "reindex", !.local = <<MinedHash(Len(chain))>>])
    /\ ParFrame /\ UNCHANGED <<lock, events>>

TxAnnounce(t) ==
    /\ At(t, "Tx", "announce")
    /\ lock = Free
    /\ Goto(t, Sending(threads[t],
                       InvTo(SeqOf(get_known_nodes(Begin) \ {Self}), KindBlock,
                             threads[t].local),
                       IF DOMAIN threads[t].pool = {} THEN "clear" ELSE "verify"))
    /\ Same /\ ParFrame /\ UNCHANGED <<lock, events>>

TxClear(t) ==
    /\ At(t, "Tx", "clear")
    /\ lock = Free
    /\ Store(clear_mempool(Begin))
    /\ Goto(t, Finished(threads[t], "Ok"))
    /\ ParFrame /\ UNCHANGED <<lock, events>>

(*************************** the SignRequest arm, lines 643-653 ************)
\* prepare_sign_response: the lock is taken for the signer's call and released when
\* the match ends, before the response is written to the connection
ArmPrepare(t) ==
    /\ At(t, "SignRequest", "start")
    /\ lock = Free
    /\ \E signer_ok \in BOOLEAN :
        Goto(t, [threads[t] EXCEPT
                    !.pc = "write",
                    !.todo = <<To(threads[t].msg.addr_from,
                                  Out(CmdSignRes,
                                      prepare_sign_response(threads[t].msg, signer_ok)))>>])
    /\ Same /\ ParFrame /\ UNCHANGED <<lock, events>>

ArmWrite(t) ==
    /\ At(t, "SignRequest", "write")
    /\ \E out \in {"ok", "reset"} :
        Goto(t, Finished(threads[t], IF out = "ok" THEN "Ok" ELSE "Err"))
    /\ Same /\ ParFrame /\ UNCHANGED <<lock, events>>

(*************************** handle_sign_request, lines 567-622 ************)
\* lines 573-587: without the wallet the response is sent with no lock taken
SignWallet(t) ==
    /\ At(t, "handle_sign_request", "start")
    /\ Goto(t, IF get_wallet(threads[t].msg.address)
               THEN [threads[t] EXCEPT !.pc = "sign"]
               ELSE Sending(threads[t],
                            <<To(threads[t].msg.addr_from,
                                 Out(CmdSignRes,
                                     SignResponseMsg(Self, threads[t].msg.transaction, FALSE,
                                                     WalletNotFound \o threads[t].msg.address)))>>,
                            "done"))
    /\ Same /\ ParFrame /\ UNCHANGED <<lock, events>>

\* line 592: the guard is a temporary of the match scrutinee and lives until the
\* match ends, line 619; the arms send the response
SignLock(t) ==
    /\ At(t, "handle_sign_request", "sign")
    /\ lock = Free
    /\ lock' = t
    /\ \E signer_ok \in BOOLEAN :
        Goto(t, Sending(threads[t],
                        <<To(threads[t].msg.addr_from,
                             Out(CmdSignRes,
                                 IF signer_ok
                                 THEN SignResponseMsg(Self, Signed(threads[t].msg.transaction),
                                                      TRUE, Empty)
                                 ELSE SignResponseMsg(Self, threads[t].msg.transaction, FALSE,
                                                      SigningError \o SignerFault)))>>,
                        "unlock"))
    /\ Same /\ ParFrame /\ UNCHANGED events

SignUnlock(t) ==
    /\ At(t, "handle_sign_request", "unlock")
    /\ lock = t
    /\ lock' = Free
    /\ Goto(t, Finished(threads[t], "Ok"))
    /\ Same /\ ParFrame /\ UNCHANGED events

ParInit ==
    /\ known_nodes = {P}
    /\ blocks_in_transit \in {<<>>, <<H1>>, <<H1, H2>>}
    /\ mempool = EmptyMap
    /\ chain = <<>>
    /\ mining_address = Miner
    /\ last = NoCall
    /\ threads = [t \in Threads |-> Idle]
    /\ lock = Free
    /\ events = <<>>
    /\ CodecIdle /\ ConnIdle /\ NetIdle
ParNext ==
    \E t \in Threads :
        \/ Accept(t)
        \/ Send(t)
        \/ Evict(t)
        \/ BlockAdd(t)
        \/ BlockGet(t)
        \/ BlockReplace(t)
        \/ Reindex(t)
        \/ InvReplace(t)
        \/ TxInsert(t)
        \/ TxNodes(t)
        \/ TxSnapshot(t)
        \/ TxVerify(t)
        \/ TxMine(t)
        \/ TxAnnounce(t)
        \/ TxClear(t)
        \/ ArmPrepare(t)
        \/ ArmWrite(t)
        \/ SignWallet(t)
        \/ SignLock(t)
        \/ SignUnlock(t)
SpecPar == ParInit /\ [][ParNext]_vars

NetworkPcs == {"send", "write"}

\* C13: no thread is in a network operation (the connect and write of send_data, the
\* write of a response) while it holds the lock, in any handler, both SignRequest
\* routines included.
C13_LockNeverHeldOnNetwork ==
    \A t \in Threads : threads[t].pc \in NetworkPcs => lock # t

\* part of C13: a refused connect never leaves a thread waiting in remove_node for
\* the lock it holds itself
C13_NeverWaitsForOwnLock ==
    \A t \in Threads : threads[t].pc = "evict" => lock # t

\* the part of C13 the code keeps: every routine but handle_sign_request
C13_OutsideHandleSignRequest ==
    \A t \in Threads :
        (threads[t].pc # "idle" /\ threads[t].op # "handle_sign_request") => lock # t

AllDone == \A t \in Threads : threads[t].pc = "done"

\* C16: when the handlers have returned, every transaction a Tx handler accepted and
\* that verifies is in the ledger or still in the Mempool, also if it was inserted
\* while the mining burst of another Tx handler was running.
C16_MidBurstTxNotLost ==
    AllDone
        => \A t \in Threads :
            (threads[t].op = "Tx" /\ threads[t].result = "Ok"
                /\ verify_tx(Begin, threads[t].msg.transaction))
                => \/ threads[t].msg.transaction.id \in DOMAIN mempool
                   \/ InLedger(Begin, threads[t].msg.transaction.id)

Requests == SelectSeq(events, LAMBDA e : e.ev = "send" /\ e.out = "ok")
BlockWrites == SelectSeq(events, LAMBDA e : e.ev = "replace" /\ e.op = "Block")

\* C20: no hash is requested with GetData twice, and a Block handler's write of the
\* Tracker takes out of it the hash that handler requested and no other.
C20_NoDuplicateRequestNoStaleWrite ==
    /\ \A i, j \in 1..Len(Requests) :
            i # j => Requests[i].m.data.id # Requests[j].m.data.id
    /\ \A i \in 1..Len(BlockWrites) :
            /\ BlockWrites[i].before # <<>>
            /\ BlockWrites[i].before = <<BlockWrites[i].requested>> \o BlockWrites[i].after

(***************************************************************************)
(* SpecVer: a Version exchange between two nodes running this program.     *)
(* Each node calls itself Self and the other node P; a message is          *)
(* translated from the sender's names to the receiver's when it is put in  *)
(* flight.  The ledgers stay as they are: an Inv stays in flight, since    *)
(* handling it would fetch blocks.  `events` holds one record per call:    *)
(* who ran it, on which message, at which height, and what it sent.        *)
(***************************************************************************)
Nodes == {1, 2}
Other(n) == 3 - n

BeginOf(n) ==
    [known_nodes |-> peers[n].known_nodes, blocks_in_transit |-> peers[n].blocks_in_transit,
     mempool |-> peers[n].mempool, chain |-> peers[n].chain,
     sent |-> <<>>, reindex |-> 0, mined |-> <<>>, result |-> "run"]

SwapAddr(a) == IF a = Self THEN P ELSE IF a = P THEN Self ELSE a

\* a message as its receiver reads it
Seen(m) ==
    IF m.cmd = CmdAddr
    THEN Out(CmdAddr, Addrmsg([i \in 1..Len(m.data.nodes) |-> SwapAddr(m.data.nodes[i])]))
    ELSE Out(m.cmd, [m.data EXCEPT !.addr_from = SwapAddr(@)])

Arrived(n, st) ==
    LET ok == SelectSeq(st.sent, LAMBDA a : a.out = "ok")
    IN  [i \in 1..Len(ok) |-> [to |-> Other(n), m |-> Seen(ok[i].m)]]

CmdsOf(st) == [i \in 1..Len(st.sent) |-> st.sent[i].m.cmd]

VerApply(n, how, m, st, rest, started) ==
    /\ peers' = [peers EXCEPT ![n] = [known_nodes |-> st.known_nodes,
                                      blocks_in_transit |-> st.blocks_in_transit,
                                      mempool |-> st.mempool, chain |-> st.chain,
                                      started |-> started]]
    /\ inflight' = rest \o Arrived(n, st)
    /\ events' = Append(events, [ev |-> how, n |-> n, m |-> m,
                                 height |-> get_best_height(BeginOf(n)),
                                 cmds |-> CmdsOf(st)])
    /\ UNCHANGED <<nodeVars, codecVars, connVars, threads, lock>>

\* request_blocks, lines 278-283: GetBlocks to every known node; a send to the
\* node's own address does nothing, so the send to P is the one that counts
request_blocks(st, net) ==
    IF P \in get_known_nodes(st) THEN send_get_blocks(st, net, P) ELSE st

\* the bootstrap task of start_server, lines 137-148; `first` is the node the
\* iteration of the HashSet yields first
bootstrap(st, net, first) ==
    IF get_best_height(st) = -1 THEN request_blocks(st, net)
    ELSE IF get_known_nodes(st) # {} THEN send_version(st, net, first)
    ELSE st

VerStart(n) ==
    /\ ~peers[n].started
    /\ \E net \in SyncNets,
          first \in IF peers[n].known_nodes = {} THEN {P} ELSE peers[n].known_nodes :
        VerApply(n, "start", Out(Empty, [addr_from |-> Self]),
                 bootstrap(BeginOf(n), net, first), inflight, TRUE)

Without(seq, i) == SubSeq(seq, 1, i - 1) \o SubSeq(seq, i + 1, Len(seq))

Receive(n, m, net) ==
    IF m.cmd = CmdVersion THEN handle_version(BeginOf(n), net, m.data)
    ELSE IF m.cmd = CmdGetBlocks THEN handle_get_blocks(BeginOf(n), net, m.data)
    ELSE handle_addr(BeginOf(n), m.data.nodes)

Deliverable(m) == m.cmd \in {CmdVersion, CmdGetBlocks, CmdAddr}

VerDeliver(i) ==
    /\ Deliverable(inflight[i].m)
    /\ \E net \in SyncNets :
        VerApply(inflight[i].to, "recv", inflight[i].m,
                 Receive(inflight[i].to, inflight[i].m, net),
                 Without(inflight, i), peers[inflight[i].to].started)

Ledgers == {<<>>, <<B1>>, <<B1, B2>>}

VerInit ==
    /\ peers \in [Nodes -> [known_nodes : {{}, {P}}, blocks_in_transit : {<<>>},
                            mempool : {EmptyMap}, chain : Ledgers, started : {FALSE}]]
    /\ inflight = <<>>
    /\ events = <<>>
    /\ threads = NoThreads /\ lock = Free
    /\ NodeNew /\ CodecIdle /\ ConnIdle
VerNext ==
    \/ \E n \in Nodes : VerStart(n)
    \/ \E i \in 1..Len(inflight) : VerDeliver(i)
SpecVer == VerInit /\ [][VerNext]_vars
SpecVerLive == SpecVer /\ WF_vars(VerNext)

CountOf(cmd, cmds) == Len(SelectSeq(cmds, LAMBDA c : c = cmd))
RECURSIVE Total(_, _)
Total(cmd, evs) ==
    IF evs = <<>> THEN 0 ELSE CountOf(cmd, Head(evs).cmds) + Total(cmd, Tail(evs))
Starts == SelectSeq(events, LAMBDA e : e.ev = "start")

\* C22: with ledgers that do not change, a received Version is answered with one
\* Version by a node of strictly greater height and with none otherwise, with one
\* GetBlocks by a node of strictly lower height and with none otherwise; no other
\* message is answered with a Version; so at most two Versions are sent for each
\* node that starts an exchange, and at most six calls: the start, the handling
\* of its Version, of the Version in answer and its Addr, and of the GetBlocks in
\* answer to that and its Addr.
C22_VersionExchangeIsFinite ==
    /\ \A i \in 1..Len(events) :
        IF events[i].ev = "recv" /\ events[i].m.cmd = CmdVersion
        THEN /\ CountOf(CmdVersion, events[i].cmds) =
                    IF events[i].height > events[i].m.data.best_height THEN 1 ELSE 0
             /\ CountOf(CmdGetBlocks, events[i].cmds) =
                    IF events[i].height < events[i].m.data.best_height THEN 1 ELSE 0
        ELSE IF events[i].ev = "recv" THEN CountOf(CmdVersion, events[i].cmds) = 0
        ELSE CountOf(CmdVersion, events[i].cmds) <= 1
    /\ Total(CmdVersion, events) <= 2 * Len(Starts)
    /\ Len(events) <= 6 * Len(Starts)

\* nothing is left to handle but Inv
VerQuiet == \A i \in 1..Len(inflight) : ~Deliverable(inflight[i].m)

\* C22, as termination: under SpecVerLive the exchange comes to rest
C22_ExchangeComesToRest == <>[]VerQuiet

\* both nodes started, a Version was answered with a Version, and all is handled
C22_Witness ==
    /\ Len(Starts) = 2
    /\ Total(CmdVersion, events) = 3
    /\ \E i \in 1..Len(events) :
        events[i].ev = "recv" /\ events[i].m.cmd = CmdVersion
            /\ CountOf(CmdVersion, events[i].cmds) = 1
    /\ VerQuiet

====
